---- MODULE Spec2Model ----
(***************************************************************************)
(* A model of tagent: the ACL store (db.rs), the glob matcher and the      *)
(* decision engine (db.rs: check_acl_glob_for_match, check_acl_for_match,  *)
(* is_authz_db), the ACL management handlers and the file handlers         *)
(* (handlers.rs).                                                          *)
(*                                                                         *)
(* Strings that the code only compares for equality (subjects, callers)    *)
(* are TLA+ strings.  Strings that the code scans character by character   *)
(* (user and path fields, request paths) are sequences of one-character    *)
(* strings, so that "starts_with('/')", glob parsing and glob matching are *)
(* computed as the code computes them.                                     *)
(***************************************************************************)
EXTENDS Integers, Sequences, FiniteSets, TLC

\* ------------------------------------------------------------------------
\* Characters
\* ------------------------------------------------------------------------

\* std::path::is_separator on unix
is_separator(c) == c = "/"

\* char::to_ascii_lowercase, on the letters of the model's alphabet: it maps
\* the ASCII letters and leaves every other character, "É" too, as it is
to_ascii_lowercase(c) ==
    CASE c = "A" -> "a"
      [] c = "B" -> "b"
      [] c = "C" -> "c"
      [] c = "T" -> "t"
      [] c = "X" -> "x"
      [] OTHER -> c

\* str::starts_with('/')
starts_with_slash(s) == Len(s) > 0 /\ s[1] = "/"

\* ------------------------------------------------------------------------
\* glob::Pattern, as db.rs uses it
\* ------------------------------------------------------------------------

\* A variant of the options: '*' and '?' stop at a path separator
MatchOptions_literal_separator ==
    [ case_sensitive |-> FALSE,
      require_literal_separator |-> TRUE,
      require_literal_leading_dot |-> FALSE ]

\* The options check_acl_glob_for_match passes to matches_with.
MatchOptions ==
    [ case_sensitive |-> FALSE,
      require_literal_separator |-> FALSE,
      require_literal_leading_dot |-> FALSE ]

\* Length of the run of '*' that starts at position p of chars.
RECURSIVE StarRun(_, _)
StarRun(chars, p) ==
    IF p <= Len(chars) /\ chars[p] = "*" THEN 1 + StarRun(chars, p + 1) ELSE 0

\* glob::Pattern::new: the token list of a pattern, or a PatternError.
\* Tokens are <<"Char", c>>, <<"AnyChar">>, <<"AnySequence">>,
\* <<"AnyRecursiveSequence">>.  The model's alphabet has '[' but no ']', so
\* every '[' is an unterminated range, which Pattern::new rejects.
RECURSIVE Tokenize(_, _, _)
Tokenize(chars, p, tokens) ==
    IF p > Len(chars) THEN [err |-> FALSE, tokens |-> tokens]
    ELSE IF chars[p] = "?" THEN Tokenize(chars, p + 1, Append(tokens, <<"AnyChar">>))
    ELSE IF chars[p] = "*" THEN
        LET count == StarRun(chars, p)
            n     == p + count
        IN  IF count > 2 THEN [err |-> TRUE, tokens |-> <<>>]
            ELSE IF count = 2 THEN
                IF p = 1 \/ is_separator(chars[p - 1])
                THEN IF n <= Len(chars) /\ is_separator(chars[n])
                     THEN Tokenize(chars, n + 1,
                              IF Len(tokens) > 1 /\ tokens[Len(tokens)] = <<"AnyRecursiveSequence">>
                              THEN tokens ELSE Append(tokens, <<"AnyRecursiveSequence">>))
                     ELSE IF n = Len(chars) + 1
                     THEN Tokenize(chars, n,
                              IF Len(tokens) > 1 /\ tokens[Len(tokens)] = <<"AnyRecursiveSequence">>
                              THEN tokens ELSE Append(tokens, <<"AnyRecursiveSequence">>))
                     ELSE [err |-> TRUE, tokens |-> <<>>]
                ELSE [err |-> TRUE, tokens |-> <<>>]
            ELSE Tokenize(chars, n, Append(tokens, <<"AnySequence">>))
    ELSE IF chars[p] = "[" THEN [err |-> TRUE, tokens |-> <<>>]
    ELSE Tokenize(chars, p + 1, Append(tokens, <<"Char", chars[p]>>))

PatternNew(pattern) == Tokenize(pattern, 1, <<>>)

\* glob's chars_eq
chars_eq(a, b, case_sensitive) ==
    IF case_sensitive THEN a = b
    ELSE to_ascii_lowercase(a) = to_ascii_lowercase(b)

\* follows_separator before the j-th character of file is read
FollowsAt(file, j, follows_separator) ==
    IF j = 1 THEN follows_separator ELSE is_separator(file[j - 1])

\* Reading file[j] inside a wildcard makes matches_from return "no match".
StarStops(tok, file, j, follows_separator, options) ==
    \/ /\ FollowsAt(file, j, follows_separator)
       /\ options.require_literal_leading_dot
       /\ file[j] = "."
    \/ /\ tok = <<"AnySequence">>
       /\ options.require_literal_separator
       /\ is_separator(file[j])

\* glob::Pattern::matches_from(...) == Match
RECURSIVE matches_from(_, _, _, _, _)
matches_from(tokens, follows_separator, file, i, options) ==
    IF i > Len(tokens) THEN file = <<>>
    ELSE LET tok == tokens[i] IN
        IF tok[1] \in {"AnySequence", "AnyRecursiveSequence"}
        THEN \/ matches_from(tokens, follows_separator, file, i + 1, options)
             \/ \E k \in 1..Len(file) :
                   /\ \A j \in 1..k : ~StarStops(tok, file, j, follows_separator, options)
                   /\ \/ /\ tok = <<"AnySequence">> \/ is_separator(file[k])
                         /\ matches_from(tokens, is_separator(file[k]),
                                         SubSeq(file, k + 1, Len(file)), i + 1, options)
                      \/ /\ k = Len(file)
                         /\ matches_from(tokens, is_separator(file[k]), <<>>, i + 1, options)
        ELSE /\ file # <<>>
             /\ LET c == file[1] IN
                /\ CASE tok[1] = "AnyChar" ->
                          ~ \/ options.require_literal_separator /\ is_separator(c)
                            \/ follows_separator /\ options.require_literal_leading_dot /\ c = "."
                     [] OTHER -> chars_eq(c, tok[2], options.case_sensitive)
                /\ matches_from(tokens, is_separator(c), Tail(file), i + 1, options)

\* A variant of check_acl_glob_for_match for which an ill-formed pattern
\* matches nothing
check_acl_glob_for_match_or_false(acl_field, field) ==
    LET gb == PatternNew(acl_field)
    IN  IF gb.err THEN <<"Ok", FALSE>>
        ELSE <<"Ok", matches_from(gb.tokens, TRUE, field, 1, MatchOptions)>>

\* db.rs check_acl_glob_for_match: <<"Ok", b>> or <<"Err">> (glob::PatternError)
check_acl_glob_for_match(acl_field, field) ==
    LET gb == PatternNew(acl_field)
    IN  IF gb.err THEN <<"Err">>
        ELSE <<"Ok", matches_from(gb.tokens, TRUE, field, 1, MatchOptions)>>

\* ------------------------------------------------------------------------
\* models.rs
\* ------------------------------------------------------------------------

\* AclAction and AclDecision, as their Display strings
AclAction == {"Read", "Execute", "Write"}
AclDecision == {"Allow", "Deny"}

\* Variants of is_leq_action: Execute above Write; Read below Read only; no
\* order at all.
is_leq_action_execute_top(acl, action) ==
    IF acl.action = "Read" THEN TRUE
    ELSE IF acl.action = "Write" THEN action = "Execute" \/ action = "Write"
    ELSE action = "Execute"

is_leq_action_read_is_read(acl, action) ==
    IF acl.action = "Read" THEN action = "Read"
    ELSE IF acl.action = "Execute" THEN action = "Execute" \/ action = "Write"
    ELSE action = "Write"

is_leq_action_exact(acl, action) == acl.action = action

\* A variant of is_leq_action in which Execute is not below Write
is_leq_action_execute_apart(acl, action) ==
    IF acl.action = "Read" THEN TRUE
    ELSE IF acl.action = "Execute" THEN action = "Execute"
    ELSE action = "Write"

\* DbAcl::is_leq_action: the ACL's action is lower than or equal to action
is_leq_action(acl, action) ==
    IF acl.action = "Read" THEN TRUE
    ELSE IF acl.action = "Execute" THEN action = "Execute" \/ action = "Write"
    ELSE action = "Write"

\* ------------------------------------------------------------------------
\* db.rs: the match predicate and the decision
\* ------------------------------------------------------------------------

\* A variant of check_acl_for_match that compares the user by equality only
check_acl_for_match_user_exact(sub, usr, pth, act, acl) ==
    IF sub # acl.subject \/ usr # acl.user THEN <<"Ok", FALSE>>
    ELSE LET pm == IF pth # acl.path
                   THEN check_acl_glob_for_match(acl.path, pth) ELSE <<"Ok", TRUE>>
         IN  IF pm = <<"Err">> THEN <<"Err">>
             ELSE IF ~pm[2] THEN <<"Ok", FALSE>>
             ELSE IF acl.action # act
                  THEN IF acl.decision = "Allow"
                       THEN <<"Ok", ~is_leq_action(acl, act)>>
                       ELSE <<"Ok", is_leq_action(acl, act)>>
                  ELSE <<"Ok", TRUE>>

\* check_acl_for_match: <<"Ok", b>> or <<"Err">> (glob::PatternError, by '?')
check_acl_for_match(sub, usr, pth, act, acl) ==
    IF sub # acl.subject THEN <<"Ok", FALSE>>
    ELSE LET um == IF usr # acl.user
                   THEN check_acl_glob_for_match(acl.user, usr) ELSE <<"Ok", TRUE>>
         IN  IF um = <<"Err">> THEN <<"Err">>
             ELSE IF ~um[2] THEN <<"Ok", FALSE>>
             ELSE LET pm == IF pth # acl.path
                            THEN check_acl_glob_for_match(acl.path, pth) ELSE <<"Ok", TRUE>>
                  IN  IF pm = <<"Err">> THEN <<"Err">>
                      ELSE IF ~pm[2] THEN <<"Ok", FALSE>>
                      ELSE IF acl.action # act
                           THEN IF acl.decision = "Allow"
                                THEN <<"Ok", ~is_leq_action(acl, act)>>
                                ELSE <<"Ok", is_leq_action(acl, act)>>
                           ELSE <<"Ok", TRUE>>

\* A variant of LoadAcls that does not filter by decision
LoadAcls_any_decision(table, sub, dec) == SelectSeq(table, LAMBDA a : a.subject = sub)

\* acls.filter(subject.eq(sub)).filter(decision.eq(dec)).load(conn): the rows of
\* the table, in table order
LoadAcls(table, sub, dec) ==
    SelectSeq(table, LAMBDA a : a.subject = sub /\ a.decision = dec)

\* A variant of ScanAcls that stops after the first row
ScanAcls_first_row(rows, i, sub, usr, pth, act) ==
    IF Len(rows) = 0 THEN <<"NoMatch">>
    ELSE LET m == check_acl_for_match(sub, usr, pth, act, rows[1])
         IN  IF m = <<"Err">> THEN <<"Err">>
             ELSE IF m[2] THEN <<"Match", rows[1].id>>
             ELSE <<"NoMatch">>

\* One "for acl in ..." loop of is_authz_db from its i-th row on:
\* <<"Err">>, <<"Match", id>> at the first matching row, or <<"NoMatch">>.
RECURSIVE ScanAcls(_, _, _, _, _, _)
ScanAcls(rows, i, sub, usr, pth, act) ==
    IF i > Len(rows) THEN <<"NoMatch">>
    ELSE LET m == check_acl_for_match(sub, usr, pth, act, rows[i])
         IN  IF m = <<"Err">> THEN <<"Err">>
             ELSE IF m[2] THEN <<"Match", rows[i].id>>
             ELSE ScanAcls(rows, i + 1, sub, usr, pth, act)

\* Result<AuthAnswer, AuthCheckError>; Option<i32> is <<>> (None) or <<id>>
AuthAnswer(allowed, acl_id) == [kind |-> "Ok", allowed |-> allowed, acl_id |-> acl_id]
AuthCheckError == [kind |-> "Err"]

\* The Deny pass of is_authz_db over the rows its first query returned:
\* the value is_authz_db returns from it, or "continue".
DenyPass(deny_acls, sub, usr, pth, act) ==
    LET r == ScanAcls(deny_acls, 1, sub, usr, pth, act)
    IN  IF r = <<"Err">> THEN AuthCheckError
        ELSE IF r[1] = "Match" THEN AuthAnswer(FALSE, <<r[2]>>)
        ELSE [kind |-> "continue"]

\* A variant of the Allow pass whose default decision is to allow
AllowPass_default_allow(allow_acls, sub, usr, pth, act) ==
    LET r == ScanAcls(allow_acls, 1, sub, usr, pth, act)
    IN  IF r = <<"Err">> THEN AuthCheckError
        ELSE IF r[1] = "Match" THEN AuthAnswer(TRUE, <<r[2]>>)
        ELSE AuthAnswer(TRUE, <<>>)

\* A variant of the Allow pass that does not report the ACL that matched
AllowPass_no_id(allow_acls, sub, usr, pth, act) ==
    LET r == ScanAcls(allow_acls, 1, sub, usr, pth, act)
    IN  IF r = <<"Err">> THEN AuthCheckError
        ELSE IF r[1] = "Match" THEN AuthAnswer(TRUE, <<>>)
        ELSE AuthAnswer(FALSE, <<>>)

\* The Allow pass of is_authz_db over the rows its second query returned.
AllowPass(allow_acls, sub, usr, pth, act) ==
    LET r == ScanAcls(allow_acls, 1, sub, usr, pth, act)
    IN  IF r = <<"Err">> THEN AuthCheckError
        ELSE IF r[1] = "Match" THEN AuthAnswer(TRUE, <<r[2]>>)
        ELSE AuthAnswer(FALSE, <<>>)

\* A variant of is_authz_db that consults the Allow ACLs first
is_authz_db_allow_first(table, sub, usr, pth, act) ==
    LET r == ScanAcls(LoadAcls(table, sub, "Allow"), 1, sub, usr, pth, act)
    IN  IF r = <<"Err">> THEN AuthCheckError
        ELSE IF r[1] = "Match" THEN AuthAnswer(TRUE, <<r[2]>>)
        ELSE LET d == DenyPass(LoadAcls(table, sub, "Deny"), sub, usr, pth, act)
             IN  IF d.kind # "continue" THEN d ELSE AuthAnswer(FALSE, <<>>)

\* A variant of is_authz_db that reads every ACL as one of the subject asked
\* about
is_authz_db_any_subject(table, sub, usr, pth, act) ==
    LET rows == [i \in 1..Len(table) |-> [table[i] EXCEPT !.subject = sub]]
        d    == DenyPass(LoadAcls(rows, sub, "Deny"), sub, usr, pth, act)
    IN  IF d.kind # "continue" THEN d
        ELSE AllowPass(LoadAcls(rows, sub, "Allow"), sub, usr, pth, act)

\* is_authz_db on a table no other request changes between its two queries
is_authz_db(table, sub, usr, pth, act) ==
    LET d == DenyPass(LoadAcls(table, sub, "Deny"), sub, usr, pth, act)
    IN  IF d.kind # "continue" THEN d
        ELSE AllowPass(LoadAcls(table, sub, "Allow"), sub, usr, pth, act)

\* ------------------------------------------------------------------------
\* db.rs: the acls table.  A table is the sequence of its rows in rowid order.
\* ------------------------------------------------------------------------

\* The id the store gives the next inserted row: "assigned at insert,
\* monotonically unique within the store".
NewRowId(counter) == counter

\* A variant of save_acl that stores the path as submitted
save_acl_path_as_submitted(table, id, subject, action, path, user, decision, create_by, now) ==
    Append(table, [ id |-> id, subject |-> subject, action |-> action, path |-> path,
                    user |-> user, decision |-> decision, create_by |-> create_by,
                    create_time |-> now ])

\* save_acl: the table after the insert
save_acl(table, id, subject, action, path, user, decision, create_by, now) ==
    LET new_path == IF ~starts_with_slash(path) THEN <<"/">> \o path ELSE path
        new_acl  == [ id          |-> id,
                      subject     |-> subject,
                      action      |-> action,
                      path        |-> new_path,
                      user        |-> user,
                      decision    |-> decision,
                      create_by   |-> create_by,
                      create_time |-> now ]
    IN  Append(table, new_acl)

retrieve_all_acls(table) == table

retrieve_acls_for_subject(table, sub) ==
    SelectSeq(table, LAMBDA a : a.subject = sub)

retrieve_acls_for_subject_user(table, sub, usr) ==
    SelectSeq(table, LAMBDA a : a.subject = sub /\ a.user = usr)

\* retrieve_acl_by_id: <<"Ok", row>> or <<"Err">> (diesel's NotFound)
retrieve_acl_by_id(table, id) ==
    LET rows == SelectSeq(table, LAMBDA a : a.id = id)
    IN  IF rows = <<>> THEN <<"Err">> ELSE <<"Ok", rows[1]>>

\* A variant of delete_acl_from_db_by_id that deletes the rows up to the id
delete_acl_from_db_by_id_up_to(table, acl_id) ==
    SelectSeq(table, LAMBDA a : a.id > acl_id)

\* delete_acl_from_db_by_id: the table after the delete
delete_acl_from_db_by_id(table, acl_id) ==
    SelectSeq(table, LAMBDA a : a.id # acl_id)

\* A variant of update_acl_in_db_by_id that leaves create_by as it was
update_acl_in_db_by_id_keep_create_by(table, acl_id, new_acl, new_subject) ==
    [ i \in 1..Len(table) |->
        IF table[i].id = acl_id
        THEN [ table[i] EXCEPT !.action    = new_acl.action,
                               !.subject   = new_acl.subject,
                               !.path      = new_acl.path,
                               !.user      = new_acl.user,
                               !.decision  = new_acl.decision ]
        ELSE table[i] ]

\* update_acl_in_db_by_id: the table after the update
update_acl_in_db_by_id(table, acl_id, new_acl, new_subject) ==
    [ i \in 1..Len(table) |->
        IF table[i].id = acl_id
        THEN [ table[i] EXCEPT !.action    = new_acl.action,
                               !.subject   = new_acl.subject,
                               !.path      = new_acl.path,
                               !.user      = new_acl.user,
                               !.decision  = new_acl.decision,
                               !.create_by = new_subject ]
        ELSE table[i] ]

\* ------------------------------------------------------------------------
\* The host's file system, as std::path and std::fs see it
\* ------------------------------------------------------------------------

\* A file system maps the absolute path of each node, the sequence of its
\* component names from "/", to the node: a directory, or a file and its
\* content.
DirNode == [kind |-> "dir"]
FileNode(content) == [kind |-> "file", content |-> content]

\* The host: /r is the configured root_directory, with /r/p/f under it, and
\* /e/s is a file outside of it.
RootDir == <<"r">>
HostFs ==
    ( <<>> :> DirNode ) @@ ( <<"r">> :> DirNode ) @@ ( <<"r", "p">> :> DirNode ) @@
    ( <<"r", "p", "f">> :> FileNode("old") ) @@
    ( <<"e">> :> DirNode ) @@ ( <<"e", "s">> :> FileNode("secret") )

\* The {path:.*} of a URL as Path::components reads it: whether it has a root
\* (a leading '/'), and its normal and ".." components
ReqPath(abs, segs) == [abs |-> abs, segs |-> segs]

\* PathBuf::push: an absolute path replaces the buffer, a relative one is
\* appended to it.  The buffer is the sequence of the components from "/".
push(full_path, path) == IF path.abs THEN path.segs ELSE full_path \o path.segs

\* The node the OS resolves the components comps[i..] to, starting at the
\* directory cur: <<"Ok", absolute path>>, or <<"Err">> when a component is
\* missing or is looked up in a file.  ".." is the parent; the parent of "/"
\* is "/".
RECURSIVE Walk(_, _, _, _)
Walk(files, comps, i, cur) ==
    IF i > Len(comps) THEN <<"Ok", cur>>
    ELSE IF files[cur].kind # "dir" THEN <<"Err">>
    ELSE IF comps[i] = ".."
         THEN Walk(files, comps, i + 1,
                   IF cur = <<>> THEN <<>> ELSE SubSeq(cur, 1, Len(cur) - 1))
    ELSE IF (cur \o <<comps[i]>>) \in DOMAIN files
         THEN Walk(files, comps, i + 1, cur \o <<comps[i]>>)
    ELSE <<"Err">>

\* Path::exists and Path::is_dir, and a variant of is_dir that takes a
\* file for a directory
exists(files, full_path) == Walk(files, full_path, 1, <<>>) # <<"Err">>
is_dir_or_file(files, full_path) == Walk(files, full_path, 1, <<>>) # <<"Err">>

is_dir(files, full_path) ==
    LET at == Walk(files, full_path, 1, <<>>)
    IN  at # <<"Err">> /\ files[at[2]].kind = "dir"

\* fs::read_dir: the names of the entries of the directory at
read_dir(files, at) ==
    {q[Len(q)] : q \in {x \in DOMAIN files : /\ Len(x) = Len(at) + 1
                                             /\ SubSeq(x, 1, Len(at)) = at}}

\* File::create and write_all: the file system with the file at filepath
\* created, or truncated, and written
write_file(files, filepath, data) ==
    [x \in DOMAIN files \cup {filepath} |->
        IF x = filepath THEN FileNode(data) ELSE files[x]]

\* ------------------------------------------------------------------------
\* auth.rs
\* ------------------------------------------------------------------------

\* A request's x-tapis-token header: present or not, whether its signature
\* verifies under the configured key, and the subject claim (<<>> if none).
Token(present, verified, sub) == [present |-> present, verified |-> verified, sub |-> sub]

\* get_subject_of_request: <<"Ok", subject>> or <<"Err">>
get_subject_of_request(tok) ==
    IF ~tok.present THEN <<"Err">>
    ELSE IF ~tok.verified THEN <<"Err">>
    ELSE IF tok.sub = <<>> THEN <<"Err">>
    ELSE <<"Ok", tok.sub[1]>>

\* ------------------------------------------------------------------------
\* State
\* ------------------------------------------------------------------------

VARIABLES
    acls,      \* the acls table: its rows in rowid order
    next_id,   \* the id of the next inserted row
    clock,     \* SystemTime::now(), as a logical clock read by save_acl
    fs,        \* the host's file system: absolute path -> node
    last,      \* the last request handled and the response it got
    task,      \* a call of is_authz_db in progress next to other requests
    hist,      \* what the store held while the call in progress ran
    uploads    \* the calls of save_file in progress

vars == <<acls, next_id, clock, fs, last, task, hist, uploads>>

\* What a handler did on the way to its response: the store and file system
\* operations it performed.
Response(op, req, status, result, effects) ==
    [op |-> op, req |-> req, status |-> status, result |-> result, effects |-> effects]

\* A request rejected before its handler read anything but the token
Rejected(op, tok) == Response(op, [tok |-> tok], "error", "auth", {})

\* TagentError as ResponseError: HTTP 400, status "error"
ErrorRsp(op, req, message, effects) == Response(op, req, "error", message, effects)

\* The frames the stack of a worker thread has room for
StackFrames == 8

\* Display::fmt of AuthCheckError, entered with depth frames of it on the
\* stack: write!(f, "{}", self) formats self with Display::fmt again, whatever
\* the error is, and a call that finds no room for its frame overflows the
\* stack.
RECURSIVE fmt_AuthCheckError(_, _)
fmt_AuthCheckError(self, depth) ==
    IF depth >= StackFrames THEN <<"overflow">>
    ELSE fmt_AuthCheckError(self, depth + 1)

\* TagentError::from(AuthCheckError): the message formats the error with "{}"
TagentError_from_AuthCheckError(error) ==
    LET details == fmt_AuthCheckError(error, 0)
    IN  IF details = <<"overflow">> THEN <<"overflow">>
        ELSE <<"Ok", "authcheck">>

\* A request whose worker overflowed its stack: the runtime aborts the
\* process and no response is sent.  result is what the handler had computed.
Aborted(op, req, result, effects) == Response(op, req, "aborted", result, effects)

\* The process serves requests until it is aborted
Running == last.status # "aborted"

\* ------------------------------------------------------------------------
\* handlers.rs: the ACL endpoints
\* ------------------------------------------------------------------------

\* Acl::from_db_acl: the row as a response shows it
from_db_acl(db_acl) ==
    [ id          |-> db_acl.id,
      subject     |-> db_acl.subject,
      action      |-> db_acl.action,
      path        |-> db_acl.path,
      user        |-> db_acl.user,
      decision    |-> db_acl.decision,
      create_by   |-> db_acl.create_by,
      create_time |-> db_acl.create_time ]

\* acls.iter().map(Acl::from_db_acl)
from_db_acls(rows) == [i \in 1..Len(rows) |-> from_db_acl(rows[i])]

\* NewAclJson::validate_path: the submitted path must be non-empty
validate_path(acl) == acl.path # <<>>

\* serde's String: any JSON string
Deserialize_String(s) == <<"Ok", s>>

\* A variant of Deserialize_AclAction that takes every string
Deserialize_AclAction_any(s) == <<"Ok", s>>

\* serde's derived Deserialize of the unit enums: the name of a variant,
\* letter for letter, and nothing else
Deserialize_AclAction(s) == IF s \in AclAction THEN <<"Ok", s>> ELSE <<"Err">>
Deserialize_AclDecision(s) == IF s \in AclDecision THEN <<"Ok", s>> ELSE <<"Err">>

\* web::Json<NewAclJson>: the body of a POST or PUT as the handler gets it
Json_NewAclJson(body) ==
    LET action   == Deserialize_AclAction(body.action)
        decision == Deserialize_AclDecision(body.decision)
    IN  IF action = <<"Err">> \/ decision = <<"Err">> THEN <<"Err">>
        ELSE <<"Ok", [subject |-> Deserialize_String(body.subject)[2],
                      action |-> action[2], decision |-> decision[2],
                      path |-> Deserialize_String(body.path)[2],
                      user |-> Deserialize_String(body.user)[2]]>>

\* The answer to a request whose body JsonConfig's error handler rejects: the
\* handler is not called
JsonRejected(op, req) == Response(op, req, "error", "json", {})

\* POST /acls
create_acl(tok, body) ==
    LET subject == get_subject_of_request(tok)
        req     == [tok |-> tok, acl |-> body]
        json    == Json_NewAclJson(body)
        acl     == json[2]
    IN  IF json = <<"Err">>
        THEN /\ last' = JsonRejected("create_acl", req)
             /\ UNCHANGED <<acls, next_id, clock, fs>>
        ELSE IF subject = <<"Err">>
        THEN /\ last' = Rejected("create_acl", tok)
             /\ UNCHANGED <<acls, next_id, clock, fs>>
        ELSE IF ~validate_path(acl)
        THEN /\ last' = ErrorRsp("create_acl", req, "validation", {})
             /\ UNCHANGED <<acls, next_id, clock, fs>>
        ELSE /\ acls' = save_acl(acls, NewRowId(next_id), acl.subject, acl.action, acl.path,
                                 acl.user, acl.decision, subject[2], clock)
             /\ next_id' = next_id + 1
             /\ clock' = clock + 1
             /\ last' = Response("create_acl", req, "success", "none", {"db_write"})
             /\ UNCHANGED fs

\* GET /acls
get_all_acls(tok) ==
    LET subject == get_subject_of_request(tok)
        req     == [tok |-> tok]
    IN  /\ last' = IF subject = <<"Err">>
                   THEN Rejected("get_all_acls", tok)
                   ELSE Response("get_all_acls", req, "success",
                                 from_db_acls(retrieve_all_acls(acls)), {"db_read"})
        /\ UNCHANGED <<acls, next_id, clock, fs>>

\* GET /acls/{id}
get_acl_by_id(tok, id) ==
    LET subject == get_subject_of_request(tok)
        req     == [tok |-> tok, id |-> id]
        result  == retrieve_acl_by_id(acls, id)
    IN  /\ last' = IF subject = <<"Err">>
                   THEN Rejected("get_acl_by_id", tok)
                   ELSE IF result = <<"Err">>
                   THEN ErrorRsp("get_acl_by_id", req, "db", {"db_read"})
                   ELSE Response("get_acl_by_id", req, "success", from_db_acl(result[2]),
                                 {"db_read"})
        /\ UNCHANGED <<acls, next_id, clock, fs>>

\* DELETE /acls/{id}
delete_acl_by_id(tok, acl_id) ==
    LET subject == get_subject_of_request(tok)
        req     == [tok |-> tok, id |-> acl_id]
    IN  IF subject = <<"Err">>
        THEN /\ last' = Rejected("delete_acl_by_id", tok)
             /\ UNCHANGED <<acls, next_id, clock, fs>>
        ELSE /\ acls' = delete_acl_from_db_by_id(acls, acl_id)
             /\ last' = Response("delete_acl_by_id", req, "success", "none", {"db_write"})
             /\ UNCHANGED <<next_id, clock, fs>>

\* PUT /acls/{id}
update_acl_by_id(tok, acl_id, body) ==
    LET subject == get_subject_of_request(tok)
        req     == [tok |-> tok, id |-> acl_id, acl |-> body]
        json    == Json_NewAclJson(body)
        acl     == json[2]
    IN  IF json = <<"Err">>
        THEN /\ last' = JsonRejected("update_acl_by_id", req)
             /\ UNCHANGED <<acls, next_id, clock, fs>>
        ELSE IF subject = <<"Err">>
        THEN /\ last' = Rejected("update_acl_by_id", tok)
             /\ UNCHANGED <<acls, next_id, clock, fs>>
        ELSE /\ acls' = update_acl_in_db_by_id(acls, acl_id, acl, subject[2])
             /\ last' = Response("update_acl_by_id", req, "success", "none", {"db_write"})
             /\ UNCHANGED <<next_id, clock, fs>>

\* GET /acls/subject/{subject}
get_acls_for_subject(tok, sub) ==
    LET subject == get_subject_of_request(tok)
        req     == [tok |-> tok, sub |-> sub]
    IN  /\ last' = IF subject = <<"Err">>
                   THEN Rejected("get_acls_for_subject", tok)
                   ELSE Response("get_acls_for_subject", req, "success",
                                 from_db_acls(retrieve_acls_for_subject(acls, sub)),
                                 {"db_read"})
        /\ UNCHANGED <<acls, next_id, clock, fs>>

\* GET /acls/subject/{subject}/{user}
get_acls_for_subject_user(tok, sub, user) ==
    LET subject == get_subject_of_request(tok)
        req     == [tok |-> tok, sub |-> sub, user |-> user]
    IN  /\ last' = IF subject = <<"Err">>
                   THEN Rejected("get_acls_for_subject_user", tok)
                   ELSE Response("get_acls_for_subject_user", req, "success",
                                 from_db_acls(retrieve_acls_for_subject_user(acls, sub, user)),
                                 {"db_read"})
        /\ UNCHANGED <<acls, next_id, clock, fs>>

\* The path the isauthz handler checks: "all paths start with a slash"
check_path(pth) == IF ~starts_with_slash(pth) THEN <<"/">> \o pth ELSE pth

\* What the isauthz handler does with the value of is_authz_db(...)?
AclAuthzCheckRsp(req, result) ==
    IF result.kind = "Err"
    THEN LET error == TagentError_from_AuthCheckError(result)
         IN  IF error = <<"overflow">>
             THEN Aborted("isauthz", req, result, {"db_read"})
             ELSE ErrorRsp("isauthz", req, error[2], {"db_read"})
    ELSE Response("isauthz", req, "success", result, {"db_read"})

\* GET /acls/isauthz/{subject}/{user}/{action}/{path:.*}
is_authz_subject_user_action_path(tok, sub, usr, act, pth) ==
    LET subject == get_subject_of_request(tok)
        req     == [tok |-> tok, sub |-> sub, usr |-> usr, act |-> act, pth |-> pth]
        result  == is_authz_db(acls, sub, usr, check_path(pth), act)
    IN  /\ last' = IF subject = <<"Err">>
                   THEN Rejected("isauthz", tok)
                   ELSE AclAuthzCheckRsp(req, result)
        /\ UNCHANGED <<acls, next_id, clock, fs>>

\* ------------------------------------------------------------------------
\* handlers.rs: the status and file endpoints
\* ------------------------------------------------------------------------

\* GET /status/ready
ready(tok) ==
    /\ last' = Response("ready", [tok |-> tok], "success", "tagent ready.", {})
    /\ UNCHANGED <<acls, next_id, clock, fs>>

\* get_local_listing of a path that exists: the names it returns
get_local_listing(files, full_path) ==
    LET at == Walk(files, full_path, 1, <<>>)[2]
    IN  IF ~is_dir(files, full_path) THEN {at[Len(at)]} ELSE read_dir(files, at)

\* What a file endpoint returns when it succeeds: the node it listed, read or
\* wrote, the node the request path resolved to, and the payload
FileResult(touched, target, value) ==
    [touched |-> touched, target |-> target, value |-> value]

\* GET /files/list/{path:.*}
list_files_path(tok, path) ==
    LET subject   == get_subject_of_request(tok)
        req       == [tok |-> tok, path |-> path]
        full_path == IF path # ReqPath(TRUE, <<>>) THEN push(RootDir, path) ELSE RootDir
        at        == Walk(fs, full_path, 1, <<>>)
    IN  /\ last' = IF subject = <<"Err">>
                   THEN Rejected("list_files_path", tok)
                   ELSE IF ~exists(fs, full_path)
                   THEN ErrorRsp("list_files_path", req, "Invalid path", {"fs_stat"})
                   ELSE Response("list_files_path", req, "success",
                                 FileResult(at[2], at[2], get_local_listing(fs, full_path)),
                                 {"fs_stat", "fs_list"})
        /\ UNCHANGED <<acls, next_id, clock, fs>>

\* GET /files/contents/{path:.*}
get_file_contents_path(tok, path) ==
    LET req       == [tok |-> tok, path |-> path]
        full_path == push(RootDir, path)
        at        == Walk(fs, full_path, 1, <<>>)
    IN  /\ last' = IF ~exists(fs, full_path)
                   THEN ErrorRsp("get_file_contents_path", req, "Invalid path", {"fs_stat"})
                   ELSE IF is_dir(fs, full_path)
                   THEN ErrorRsp("get_file_contents_path", req,
                                 "Directory download is not supported", {"fs_stat"})
                   ELSE Response("get_file_contents_path", req, "success",
                                 FileResult(at[2], at[2], fs[at[2]].content),
                                 {"fs_stat", "fs_read"})
        /\ UNCHANGED <<acls, next_id, clock, fs>>

\* What payload.try_next() yields in place of a part when the multipart
\* stream fails
ReadError == [error |-> "multipart"]

\* The while let loop of save_file from item i of the payload on: it ends at
\* the end of the stream and, as silently, at an item that is not Ok(Some(_));
\* File::create fails with an io::Error when the name is a directory's
RECURSIVE save_parts(_, _, _, _, _, _)
save_parts(files, payload, i, at, filepath, wrote) ==
    IF i > Len(payload) \/ payload[i] = ReadError
    THEN [err |-> FALSE, files |-> files, filepath |-> filepath, wrote |-> wrote]
    ELSE LET next == at \o <<payload[i].filename>>
         IN  IF next \in DOMAIN files /\ files[next].kind = "dir"
             THEN [err |-> TRUE, files |-> files, filepath |-> next, wrote |-> wrote]
             ELSE save_parts(write_file(files, next, payload[i].data), payload, i + 1,
                             at, next, TRUE)

\* save_file on a directory that exists, for parts whose sanitized file name
\* is one component: the file system after it and the last path written
\* (<<>> is the initial "na"), or an io::Error
save_file(files, payload, at) == save_parts(files, payload, 1, at, <<>>, FALSE)

\* POST /files/contents/{path:.*}
post_file_contents_path(tok, path, payload) ==
    LET req       == [tok |-> tok, path |-> path, payload |-> payload]
        full_path == push(RootDir, path)
        at        == Walk(fs, full_path, 1, <<>>)
        saved     == save_file(fs, payload, at[2])
    IN  IF ~exists(fs, full_path)
        THEN /\ last' = ErrorRsp("post_file_contents_path", req, "Invalid path", {"fs_stat"})
             /\ UNCHANGED <<acls, next_id, clock, fs>>
        ELSE IF ~is_dir(fs, full_path)
        THEN /\ last' = ErrorRsp("post_file_contents_path", req,
                                 "Invalid path; must be a directory", {"fs_stat"})
             /\ UNCHANGED <<acls, next_id, clock, fs>>
        ELSE IF saved.err
        THEN /\ fs' = saved.files
             /\ last' = ErrorRsp("post_file_contents_path", req, "io",
                                 IF saved.wrote THEN {"fs_stat", "fs_write"} ELSE {"fs_stat"})
             /\ UNCHANGED <<acls, next_id, clock>>
        ELSE /\ fs' = saved.files
             /\ last' = Response("post_file_contents_path", req, "success",
                                 FileResult(saved.filepath, at[2], "none"),
                                 IF saved.wrote THEN {"fs_stat", "fs_write"} ELSE {"fs_stat"})
             /\ UNCHANGED <<acls, next_id, clock>>

\* ------------------------------------------------------------------------
\* Bounds and input sets
\* ------------------------------------------------------------------------

\* Spec: the number of rows ever inserted
MaxId == 2
\* PureSpec: the number of rows of the table a check runs on
MaxRows == 2
\* PureSpec: the length of what follows the directory in a matched string
MaxTailLen == 4
\* FileSpec: the number of files on the host
MaxFiles == 3

Subjects == {"tenants@admin", "Tenants@Admin"}
Callers == {"alice", "bob"}

NoToken == Token(FALSE, FALSE, <<>>)
ForgedToken == Token(TRUE, FALSE, <<"alice">>)
NoSubjectToken == Token(TRUE, TRUE, <<>>)
BadTokens == {NoToken, ForgedToken, NoSubjectToken}
GoodTokens == {Token(TRUE, TRUE, <<c>>) : c \in Callers}
Tokens == BadTokens \cup GoodTokens

Ids == 1..MaxId

\* Request bodies of POST /acls and PUT /acls/{id} in Spec: between them they
\* differ in every field; the paths are "b/*" (no leading slash), "/c", "/["
\* (an unterminated range: not a well-formed glob) and "" (empty).
Bodies ==
    { [subject |-> "tenants@admin", action |-> "Write", decision |-> "Allow",
       path |-> <<"b", "/", "*">>, user |-> <<"a">>],
      [subject |-> "tenants@admin", action |-> "Read", decision |-> "Deny",
       path |-> <<"/", "c">>, user |-> <<"*">>],
      [subject |-> "Tenants@Admin", action |-> "Execute", decision |-> "Deny",
       path |-> <<"/", "[">>, user |-> <<"a">>],
      [subject |-> "tenants@admin", action |-> "Read", decision |-> "Allow",
       path |-> <<>>, user |-> <<"a">>] }

\* Bodies of POST /acls and PUT /acls/{id} in Spec: the bodies above, one with
\* an action and one with a decision outside the enumerations
RawBodies ==
    Bodies \cup
    { [subject |-> "tenants@admin", action |-> "read", decision |-> "Allow",
       path |-> <<"/", "c">>, user |-> <<"a">>],
      [subject |-> "tenants@admin", action |-> "Write", decision |-> "Maybe",
       path |-> <<"/", "c">>, user |-> <<"a">>] }

\* Queries of GET /acls/isauthz in Spec
SpecQueries ==
    [sub : Subjects, usr : {<<"a">>}, act : {"Read", "Write"},
     pth : {<<"b", "/", "x">>, <<"/", "c">>}]

\* No call of is_authz_db is in progress
Idle == [pc |-> "idle"]

\* No history is kept, and no call of save_file is in progress
NoHist == [n |-> 0]
NoUploads == <<>>

\* ------------------------------------------------------------------------
\* Spec: the ACL endpoints, one request at a time
\* ------------------------------------------------------------------------

Init ==
    /\ acls = <<>>
    /\ next_id = 1
    /\ clock = 1
    /\ fs = HostFs
    /\ last = Response("none", <<>>, "success", "none", {})
    /\ task = Idle
    /\ hist = NoHist
    /\ uploads = NoUploads

AclRequest ==
    \E tok \in Tokens :
        \/ \E body \in RawBodies : next_id <= MaxId /\ create_acl(tok, body)
        \/ get_all_acls(tok)
        \/ \E id \in Ids : get_acl_by_id(tok, id)
        \/ \E id \in Ids : delete_acl_by_id(tok, id)
        \/ \E id \in Ids, body \in RawBodies : update_acl_by_id(tok, id, body)
        \/ \E sub \in Subjects : get_acls_for_subject(tok, sub)
        \/ \E sub \in Subjects, usr \in {<<"a">>, <<"*">>} :
              get_acls_for_subject_user(tok, sub, usr)
        \/ \E q \in SpecQueries :
              is_authz_subject_user_action_path(tok, q.sub, q.usr, q.act, q.pth)

Next == Running /\ AclRequest /\ UNCHANGED <<task, hist, uploads>>

Spec == Init /\ [][Next]_vars

\* ------------------------------------------------------------------------
\* PureSpec: the functions of db.rs, each applied once to inputs drawn by Init
\* ------------------------------------------------------------------------

\* The rows a table can hold after POST /acls and PUT /acls/{id} requests:
\* PUT stores the submitted subject, user, action, path and decision as they
\* are.  Users: "a".  Paths: "/b/*", "/c" and "/[".
RowFields ==
    [subject : Subjects, action : AclAction, decision : AclDecision,
     path : {<<"/", "b", "/", "*">>, <<"/", "c">>, <<"/", "[">>},
     user : {<<"a">>}]

\* More rows, for tables of one row.  Users: "a", "*", "[".
\* Paths: "/b/*", "/c", "/[", "/B/*.T", "b/*" and "/É".
OneRowFields ==
    [subject : Subjects, action : AclAction, decision : AclDecision,
     path : {<<"/", "b", "/", "*">>, <<"/", "c">>, <<"/", "[">>,
             <<"/", "B", "/", "*", ".", "T">>, <<"b", "/", "*">>, <<"/", "É">>},
     user : {<<"a">>, <<"*">>, <<"[">>}]

\* Rows of a subject no query asks about, for the first row of tables of two
\* rows.  Subject: "tenants@*".  Users: "*".  Paths: "/*" and "/[".
OtherSubjectFields ==
    [subject : {"tenants@*"}, action : {"Read", "Write"}, decision : AclDecision,
     path : {<<"/", "*">>, <<"/", "[">>}, user : {<<"*">>}]

\* Row i of a table whose rows were inserted in order and then updated
RowOf(f, i) ==
    [ id |-> i, subject |-> f.subject, action |-> f.action, path |-> f.path,
      user |-> f.user, decision |-> f.decision, create_by |-> "alice",
      create_time |-> i ]

\* Queries on one subject: users "a" and "x"; paths "b/x/y", "/c" and "/["
Queries ==
    [sub : {"tenants@admin"}, usr : {<<"a">>, <<"x">>}, act : AclAction,
     pth : {<<"b", "/", "x", "/", "y">>, <<"/", "c">>, <<"/", "[">>}]

\* Arguments of check_acl_for_match.  Users: "a", "A", "x", "[".
\* Paths: "/b/x/y", "/c", "/[", "/b/x.t", "b/x", "/C" and "/é".
MatchQueries ==
    [sub : Subjects, usr : {<<"a">>, <<"A">>, <<"x">>, <<"[">>}, act : AclAction,
     pth : {<<"/", "b", "/", "x", "/", "y">>, <<"/", "c">>, <<"/", "[">>,
            <<"/", "b", "/", "x", ".", "t">>, <<"b", "/", "x">>, <<"/", "C">>,
            <<"/", "é">>}]

\* Arguments of check_acl_glob_for_match: a directory, then a pattern suffix
\* (acl_field) or any string of up to MaxTailLen characters (field).
\* Directories: "", "/b", "/B", "/b/b".
Dirs == {<<>>, <<"/", "b">>, <<"/", "B">>, <<"/", "b", "/", "b">>}
\* Suffixes: "", "/*", "/*.t", "/*.T", "*", "/**", "**", "/***", "/?", "/[",
\* "/*b*"
PatternSuffixes ==
    { <<>>, <<"/", "*">>, <<"/", "*", ".", "t">>, <<"/", "*", ".", "T">>,
      <<"*">>, <<"/", "*", "*">>,
      <<"*", "*">>, <<"/", "*", "*", "*">>, <<"/", "?">>, <<"/", "[">>,
      <<"/", "*", "b", "*">> }
TailAlphabet == {"/", "b", ".", "t"}
Tails == UNION { [1..n -> TailAlphabet] : n \in 0..MaxTailLen }

NoRequest == Response("none", <<>>, "success", "none", {})

PureInit ==
    /\ \/ /\ \E n \in 0..MaxRows : \E t \in [1..n -> RowFields] :
                acls = [i \in 1..n |-> RowOf(t[i], i)]
          /\ last = NoRequest
       \/ /\ \E f \in OneRowFields : acls = <<RowOf(f, 1)>>
          /\ last = NoRequest
       \/ /\ \E f \in OtherSubjectFields, g \in RowFields :
                acls = <<RowOf(f, 1), RowOf(g, 2)>>
          /\ last = NoRequest
       \/ /\ acls = <<>>
          /\ \E d1 \in Dirs, s \in PatternSuffixes, d2 \in Dirs, t \in Tails :
                last = Response("glob_input", [acl_field |-> d1 \o s, field |-> d2 \o t],
                                "success", "none", {})
    /\ next_id = Len(acls) + 1
    /\ clock = Len(acls) + 1
    /\ fs = HostFs
    /\ task = Idle
    /\ hist = NoHist
    /\ uploads = NoUploads

\* GET /acls/isauthz on the table drawn
Decide ==
    /\ last.op = "none"
    /\ \E q \in Queries :
          is_authz_subject_user_action_path(Token(TRUE, TRUE, <<"alice">>),
                                            q.sub, q.usr, q.act, q.pth)

\* check_acl_for_match on the row of a table of one row
Match ==
    /\ last.op = "none"
    /\ Len(acls) = 1
    /\ \E q \in MatchQueries :
          last' = Response("check_acl_for_match", q, "success",
                           check_acl_for_match(q.sub, q.usr, q.pth, q.act, acls[1]), {})
    /\ UNCHANGED <<acls, next_id, clock, fs>>

\* check_acl_glob_for_match on the strings drawn
Glob ==
    /\ last.op = "glob_input"
    /\ last' = Response("check_acl_glob_for_match", last.req, "success",
                        check_acl_glob_for_match(last.req.acl_field, last.req.field), {})
    /\ UNCHANGED <<acls, next_id, clock, fs>>

PureNext == (Decide \/ Match \/ Glob) /\ UNCHANGED <<task, hist, uploads>>

PureSpec == PureInit /\ [][PureNext]_vars

\* ------------------------------------------------------------------------
\* FileSpec: the status, file and check endpoints, one request at a time, on
\* an ACL table drawn by Init
\* ------------------------------------------------------------------------

FileTokens == {NoToken, Token(TRUE, TRUE, <<"alice">>)}

\* Request paths: "", "/", "p", "p/f", "x", "..", "../e", "../e/s", "/e",
\* "/e/s", "p/../../e/s"
FilePaths ==
    { ReqPath(FALSE, <<>>), ReqPath(TRUE, <<>>), ReqPath(FALSE, <<"p">>),
      ReqPath(FALSE, <<"p", "f">>), ReqPath(FALSE, <<"x">>), ReqPath(FALSE, <<"..">>),
      ReqPath(FALSE, <<"..", "e">>), ReqPath(FALSE, <<"..", "e", "s">>),
      ReqPath(TRUE, <<"e">>), ReqPath(TRUE, <<"e", "s">>),
      ReqPath(FALSE, <<"p", "..", "..", "e", "s">>) }

\* Multipart payloads: no part; one part named "f", "n" or "p"; a stream that
\* fails at once; a stream that fails after its first part, named "n"
Payloads ==
    {<<>>, <<ReadError>>, <<[filename |-> "n", data |-> "new"], ReadError>>}
        \cup {<<[filename |-> n, data |-> "new"]>> : n \in {"f", "n", "p"}}

\* ACL tables: empty, Allow-Write on "/r/*" for every user of alice, and
\* Deny-Read on "/*" for every user of alice
FileTables ==
    { <<>>,
      <<RowOf([subject |-> "alice", action |-> "Write", decision |-> "Allow",
               path |-> <<"/", "r", "/", "*">>, user |-> <<"*">>], 1)>>,
      <<RowOf([subject |-> "alice", action |-> "Read", decision |-> "Deny",
               path |-> <<"/", "*">>, user |-> <<"*">>], 1)>> }

\* Queries of GET /acls/isauthz in FileSpec: path "r/p/f"
FileQueries ==
    [sub : {"alice"}, usr : {<<"a">>}, act : {"Read", "Write"},
     pth : {<<"r", "/", "p", "/", "f">>}]

FileCount(files) == Cardinality({x \in DOMAIN files : files[x].kind = "file"})

FileInit ==
    /\ acls \in FileTables
    /\ next_id = Len(acls) + 1
    /\ clock = Len(acls) + 1
    /\ fs = HostFs
    /\ task = Idle
    /\ hist = NoHist
    /\ uploads = NoUploads
    /\ last = NoRequest

FileRequest ==
    \E tok \in FileTokens :
        \/ ready(tok)
        \/ \E path \in FilePaths : list_files_path(tok, path)
        \/ \E path \in FilePaths : get_file_contents_path(tok, path)
        \/ \E path \in FilePaths, payload \in Payloads :
              /\ post_file_contents_path(tok, path, payload)
              /\ FileCount(fs') <= MaxFiles
        \/ \E q \in FileQueries :
              is_authz_subject_user_action_path(tok, q.sub, q.usr, q.act, q.pth)

FileNext == Running /\ FileRequest /\ UNCHANGED <<task, hist, uploads>>

FileSpec == FileInit /\ [][FileNext]_vars

\* ------------------------------------------------------------------------
\* CheckSpec: one call of is_authz_db at a time, statement by statement, next
\* to POST, PUT and DELETE requests on the ACLs; a query of the store may fail
\* ------------------------------------------------------------------------

\* The decision each query of is_authz_db filters by
\* (and variants in which the second query filters by Deny, and the first
\* one by Allow, as well)
allow_str_deny == "Deny"
allow_str == "Allow"
deny_str_allow == "Allow"
deny_str == "Deny"

\* A variant of load that reads a failed query as one without rows
load_or_empty(ok, table, sub, dec) ==
    <<"Ok", IF ok THEN LoadAcls(table, sub, dec) ELSE <<>>>>

\* acls.filter(...).filter(...).load::<DbAcl>(conn) on a connection on which the
\* query succeeds (ok) or fails with a diesel::result::Error
load(ok, table, sub, dec) ==
    IF ok THEN <<"Ok", LoadAcls(table, sub, dec)>> ELSE <<"Err">>

\* What a call of is_authz_db did so far: its queries and the ACLs it gave to
\* check_acl_for_match, in the order they happened
QueryEvent(dec, ok) == [ev |-> "query", dec |-> dec, ok |-> ok]
EvalEvent(acl, m) == [ev |-> "eval", dec |-> acl.decision, id |-> acl.id, out |-> m]

\* The caller of the check in progress
CheckToken == Token(TRUE, TRUE, <<"alice">>)

\* The handler calls is_authz_db(conn, sub, usr, &check_path, act)
IsAuthzCall(q) ==
    /\ task.pc = "idle"
    /\ task' = [pc |-> "query", pass |-> 1,
                req |-> [tok |-> CheckToken, sub |-> q.sub, usr |-> q.usr,
                         act |-> q.act, pth |-> q.pth],
                deny |-> <<>>, rows |-> <<>>, i |-> 1, log |-> <<>>]
    /\ UNCHANGED <<acls, next_id, clock, fs, last>>

\* The query of a pass: the first one for the Deny ACLs of the subject, the
\* second one for its Allow ACLs; '?' returns the error of a failed query
IsAuthzQuery ==
    /\ task.pc = "query"
    /\ \E ok \in BOOLEAN :
          LET dec  == IF task.pass = 1 THEN deny_str ELSE allow_str
              rows == load(ok, acls, task.req.sub, dec)
              log  == Append(task.log, QueryEvent(dec, ok))
          IN  task' = IF rows = <<"Err">>
                      THEN [pc |-> "return", req |-> task.req, result |-> AuthCheckError,
                            deny |-> task.deny, log |-> log]
                      ELSE [task EXCEPT !.pc = "for", !.rows = rows[2], !.i = 1,
                                        !.deny = IF task.pass = 1 THEN rows[2] ELSE @,
                                        !.log = log]
    /\ UNCHANGED <<acls, next_id, clock, fs, last>>

\* One turn of "for acl in ..." : the end of the loop, or check_acl_for_match
\* on the next ACL; '?' returns its error, a match returns the answer
IsAuthzFor ==
    /\ task.pc = "for"
    /\ task' =
          IF task.i > Len(task.rows)
          THEN IF task.pass = 1
               THEN [task EXCEPT !.pc = "query", !.pass = 2]
               ELSE [pc |-> "return", req |-> task.req, result |-> AuthAnswer(FALSE, <<>>),
                     deny |-> task.deny, log |-> task.log]
          ELSE LET acl == task.rows[task.i]
                   m   == check_acl_for_match(task.req.sub, task.req.usr,
                                              check_path(task.req.pth), task.req.act, acl)
                   log == Append(task.log, EvalEvent(acl, m))
               IN  IF m = <<"Err">>
                   THEN [pc |-> "return", req |-> task.req, result |-> AuthCheckError,
                         deny |-> task.deny, log |-> log]
                   ELSE IF m[2]
                   THEN [pc |-> "return", req |-> task.req,
                         result |-> AuthAnswer(task.pass = 2, <<acl.id>>),
                         deny |-> task.deny, log |-> log]
                   ELSE [task EXCEPT !.i = @ + 1, !.log = log]
    /\ UNCHANGED <<acls, next_id, clock, fs, last>>

\* is_authz_db returns to the handler, which answers the request
IsAuthzReturn ==
    /\ task.pc = "return"
    /\ last' = AclAuthzCheckRsp(task.req, task.result)
    /\ task' = Idle
    /\ UNCHANGED <<acls, next_id, clock, fs>>

\* Queries of GET /acls/isauthz in CheckSpec
CheckQueries ==
    [sub : Subjects, usr : {<<"a">>}, act : {"Read", "Write"},
     pth : {<<"b", "/", "x">>, <<"/", "c">>}]

CheckInit == Init

\* A request on the ACLs handled between two statements of is_authz_db
OtherRequest ==
    /\ \/ \E body \in Bodies : next_id <= MaxId /\ create_acl(CheckToken, body)
       \/ \E id \in Ids : delete_acl_by_id(CheckToken, id)
       \/ \E id \in Ids, body \in Bodies : update_acl_by_id(CheckToken, id, body)
    /\ UNCHANGED task

CheckNext ==
    /\ Running
    /\ \/ \E q \in CheckQueries : IsAuthzCall(q)
       \/ IsAuthzQuery
       \/ IsAuthzFor
       \/ IsAuthzReturn
       \/ OtherRequest
    /\ UNCHANGED <<hist, uploads>>

CheckSpec == CheckInit /\ [][CheckNext]_vars

\* ------------------------------------------------------------------------
\* RaceSpec: CheckSpec with a record of what the store held during the call
\* of is_authz_db, and with ACLs of one subject on one path
\* ------------------------------------------------------------------------

\* The number of requests on the ACLs handled during one call of is_authz_db
MaxInterleaved == 2

\* Bodies of POST /acls and PUT /acls/{id} in RaceSpec: Allow-Read on "/c" for
\* user "a" and Deny-Read on "/c" for every user
RaceBodies ==
    { [subject |-> "tenants@admin", action |-> "Read", decision |-> "Allow",
       path |-> <<"/", "c">>, user |-> <<"a">>],
      [subject |-> "tenants@admin", action |-> "Read", decision |-> "Deny",
       path |-> <<"/", "c">>, user |-> <<"*">>] }

\* Queries of GET /acls/isauthz in RaceSpec
RaceQueries ==
    [sub : {"tenants@admin"}, usr : {<<"a">>}, act : {"Read", "Write"}, pth : {<<"/", "c">>}]

\* The call starts: the store as it is
RaceCall ==
    /\ \E q \in RaceQueries : IsAuthzCall(q)
    /\ hist' = [n |-> 0, stores |-> {acls}, at |-> <<>>]
    /\ UNCHANGED uploads

\* A query of the call: the store it reads
RaceQuery ==
    /\ IsAuthzQuery
    /\ hist' = [hist EXCEPT !.at = Append(@, acls)]
    /\ UNCHANGED uploads

RaceFor == IsAuthzFor /\ UNCHANGED <<hist, uploads>>

RaceReturn == IsAuthzReturn /\ hist' = NoHist /\ UNCHANGED uploads

\* A request on the ACLs, handled while no call is in progress or between two
\* statements of the call: the store it leaves
RaceRequest ==
    /\ \/ \E body \in RaceBodies : next_id <= MaxId /\ create_acl(CheckToken, body)
       \/ \E id \in Ids : delete_acl_by_id(CheckToken, id)
       \/ \E id \in Ids, body \in RaceBodies : update_acl_by_id(CheckToken, id, body)
    /\ IF task.pc = "idle" THEN UNCHANGED hist
       ELSE /\ hist.n < MaxInterleaved
            /\ hist' = [hist EXCEPT !.n = @ + 1, !.stores = @ \cup {acls'}]
    /\ UNCHANGED <<task, uploads>>

RaceInit == Init

RaceNext == Running /\ (RaceCall \/ RaceQuery \/ RaceFor \/ RaceReturn \/ RaceRequest)

RaceSpec == RaceInit /\ [][RaceNext]_vars

\* ------------------------------------------------------------------------
\* UploadSpec: POST /files/contents requests in flight at once, save_file
\* statement by statement.  The content of a file written here is the
\* sequence of the chunks in it, every chunk of the same length.
\* ------------------------------------------------------------------------

\* The requests in flight at once
MaxUploads == 2

\* The bytes a write past the end of a file leaves before it
Hole == "zeros"

\* write_all through a handle whose position is offset chunks into the file
write_at(content, offset, data) ==
    [i \in 1..(IF offset + 1 > Len(content) THEN offset + 1 ELSE Len(content)) |->
        IF i = offset + 1 THEN data
        ELSE IF i <= Len(content) THEN content[i] ELSE Hole]

UploadToken == Token(TRUE, TRUE, <<"alice">>)

\* Request paths "p", a directory, and "x", which does not exist
UploadPaths == {ReqPath(FALSE, <<"p">>), ReqPath(FALSE, <<"x">>)}

\* Payloads of uploads in flight: one part named "n" or "m", of one or two
\* chunks
UploadPayloads ==
    {<<[filename |-> n, data |-> d]>> :
        n \in {"n", "m"}, d \in {<<"a1">>, <<"a1", "a2">>, <<"b1", "b2">>}}

\* post_file_contents_path up to its call of save_file
SaveFileCall ==
    /\ Len(uploads) < MaxUploads
    /\ \E path \in UploadPaths, payload \in UploadPayloads :
          LET req       == [tok |-> UploadToken, path |-> path, payload |-> payload]
              full_path == push(RootDir, path)
              at        == Walk(fs, full_path, 1, <<>>)
          IN  IF ~exists(fs, full_path)
              THEN /\ last' = ErrorRsp("post_file_contents_path", req, "Invalid path",
                                       {"fs_stat"})
                   /\ UNCHANGED uploads
              ELSE IF ~is_dir(fs, full_path)
              THEN /\ last' = ErrorRsp("post_file_contents_path", req,
                                       "Invalid path; must be a directory", {"fs_stat"})
                   /\ UNCHANGED uploads
              ELSE /\ uploads' = Append(uploads,
                                        [pc |-> "next", req |-> req, at |-> at[2],
                                         part |-> 1, filepath |-> <<>>, err |-> FALSE,
                                         wrote |-> FALSE, i |-> 1])
                   /\ UNCHANGED last
    /\ UNCHANGED <<acls, next_id, clock, fs, task, hist>>

\* payload.try_next() of upload k and, for a part, File::create, which
\* truncates a file of that name; the handle it opens starts at position 0
SaveFileNext(k) ==
    LET u == uploads[k]
        payload == u.req.payload
    IN  /\ u.pc = "next"
        /\ IF u.part > Len(payload) \/ payload[u.part] = ReadError
           THEN /\ uploads' = [uploads EXCEPT ![k].pc = "return"]
                /\ UNCHANGED fs
           ELSE LET filepath == u.at \o <<payload[u.part].filename>>
                IN  IF filepath \in DOMAIN fs /\ fs[filepath].kind = "dir"
                    THEN /\ uploads' = [uploads EXCEPT ![k].pc = "return",
                                                       ![k].filepath = filepath,
                                                       ![k].err = TRUE]
                         /\ UNCHANGED fs
                    ELSE /\ fs' = write_file(fs, filepath, <<>>)
                         /\ uploads' = [uploads EXCEPT ![k].pc = "write",
                                                       ![k].filepath = filepath,
                                                       ![k].wrote = TRUE,
                                                       ![k].i = 1]
        /\ UNCHANGED <<acls, next_id, clock, last, task, hist>>

\* field.next() of upload k: write_all of the chunk it yields at the
\* position of the upload's handle, or the end of the part
SaveFileWrite(k) ==
    LET u == uploads[k]
        data == u.req.payload[u.part].data
    IN  /\ u.pc = "write"
        /\ IF u.i > Len(data)
           THEN /\ uploads' = [uploads EXCEPT ![k].pc = "next", ![k].part = @ + 1]
                /\ UNCHANGED fs
           ELSE /\ fs' = [fs EXCEPT ![u.filepath].content = write_at(@, u.i - 1, data[u.i])]
                /\ uploads' = [uploads EXCEPT ![k].i = @ + 1]
        /\ UNCHANGED <<acls, next_id, clock, last, task, hist>>

\* save_file of upload k returns and the handler answers
SaveFileReturn(k) ==
    LET u == uploads[k]
    IN  /\ u.pc = "return"
        /\ uploads' = [uploads EXCEPT ![k].pc = "done"]
        /\ last' = IF u.err
                   THEN ErrorRsp("post_file_contents_path", u.req, "io",
                                 IF u.wrote THEN {"fs_stat", "fs_write"} ELSE {"fs_stat"})
                   ELSE Response("post_file_contents_path", u.req, "success",
                                 FileResult(u.filepath, u.at, "none"),
                                 IF u.wrote THEN {"fs_stat", "fs_write"} ELSE {"fs_stat"})
        /\ UNCHANGED <<acls, next_id, clock, fs, task, hist>>

UploadInit ==
    /\ acls = <<>>
    /\ next_id = 1
    /\ clock = 1
    /\ fs = HostFs
    /\ task = Idle
    /\ hist = NoHist
    /\ uploads = NoUploads
    /\ last = NoRequest

UploadNext ==
    \/ SaveFileCall
    \/ \E k \in DOMAIN uploads : SaveFileNext(k)
    \/ \E k \in DOMAIN uploads : SaveFileWrite(k)
    \/ \E k \in DOMAIN uploads : SaveFileReturn(k)

UploadSpec == UploadInit /\ [][UploadNext]_vars

\* ------------------------------------------------------------------------
\* The decision (PureSpec)
\* ------------------------------------------------------------------------

\* The last request was a check that reached is_authz_db
Decided == last.op = "isauthz" /\ last.effects # {}

\* The arguments is_authz_db got from the last check
Asked ==
    [sub |-> last.req.sub, usr |-> last.req.usr, act |-> last.req.act,
     pth |-> check_path(last.req.pth)]

\* "The ACL matches the query under the match predicate", and the evaluation
\* of the predicate on the ACL ending in a pattern error instead
Matches(acl, q) == check_acl_for_match(q.sub, q.usr, q.pth, q.act, acl) = <<"Ok", TRUE>>
Raises(acl, q) == check_acl_for_match(q.sub, q.usr, q.pth, q.act, acl) = <<"Err">>

\* The positions of the table whose ACL has the decision and matches / raises
MatchIdx(dec, q) ==
    {i \in 1..Len(acls) : acls[i].decision = dec /\ Matches(acls[i], q)}
RaiseIdx(dec, q) ==
    {i \in 1..Len(acls) : acls[i].decision = dec /\ Raises(acls[i], q)}

\* An ACL with the decision raises, and no ACL with the decision that comes
\* earlier in the table matches
RaisesFirst(dec, q) ==
    \E j \in RaiseIdx(dec, q) : \A i \in MatchIdx(dec, q) : j < i

Answered(allowed) == last.status = "success" /\ last.result.allowed = allowed

\* is_authz_db returned an AuthCheckError to the last check
DecisionError == last.result = AuthCheckError

\* C1 as stated: whenever a Deny ACL of the store matches the query,
\* is_authz_db returns allowed = false, whatever Allow ACLs exist.
C1_DenyPrecedence_AsStated ==
    Decided /\ MatchIdx("Deny", Asked) # {} => Answered(FALSE)

\* C1: whenever a Deny ACL of the store matches the query, is_authz_db never
\* returns allowed = true: it returns allowed = false, unless a Deny ACL of
\* the subject that comes before every matching Deny ACL has an ill-formed
\* pattern the query has to be matched against, in which case it returns a
\* decision error.  Allow ACLs make no difference.
C1_DenyPrecedence ==
    Decided /\ MatchIdx("Deny", Asked) # {} =>
        IF RaisesFirst("Deny", Asked) THEN DecisionError ELSE Answered(FALSE)

\* A Deny ACL and an Allow ACL both match, and the answer is allowed = false
C1_Witness ==
    /\ Decided
    /\ MatchIdx("Deny", Asked) # {}
    /\ MatchIdx("Allow", Asked) # {}
    /\ Answered(FALSE)

\* C2 as stated: if no ACL of the store matches the query, is_authz_db returns
\* allowed = false with acl_id None.
C2_DefaultDeny_AsStated ==
    Decided /\ MatchIdx("Deny", Asked) = {} /\ MatchIdx("Allow", Asked) = {} =>
        last.status = "success" /\ last.result = AuthAnswer(FALSE, <<>>)

\* C2: if no ACL of the store matches the query, is_authz_db returns
\* allowed = false with acl_id None when every pattern it has to match the
\* query against is well formed, and a decision error when one is not.
C2_DefaultDeny ==
    Decided /\ MatchIdx("Deny", Asked) = {} /\ MatchIdx("Allow", Asked) = {} =>
        IF RaiseIdx("Deny", Asked) \cup RaiseIdx("Allow", Asked) # {}
        THEN DecisionError
        ELSE last.status = "success" /\ last.result = AuthAnswer(FALSE, <<>>)

\* The store has ACLs of the subject asked about, none matches, and the answer
\* is allowed = false with no ACL id
C2_Witness ==
    /\ Decided
    /\ \E i \in 1..Len(acls) : acls[i].subject = Asked.sub
    /\ MatchIdx("Deny", Asked) = {} /\ MatchIdx("Allow", Asked) = {}
    /\ last.status = "success" /\ last.result = AuthAnswer(FALSE, <<>>)

\* ------------------------------------------------------------------------
\* The match predicate (PureSpec)
\* ------------------------------------------------------------------------

\* check_acl_for_match was applied to the row of the table and last.req
Matched == last.op = "check_acl_for_match"

\* A field of the query matches the ACL's field "by equality or by a
\* well-formed glob match"
FieldMatches(acl_field, field) ==
    field = acl_field \/ check_acl_glob_for_match(acl_field, field) = <<"Ok", TRUE>>

\* The subject is equal, and the user and the path match
SubjectUserPathMatch(acl, q) ==
    /\ q.sub = acl.subject
    /\ FieldMatches(acl.user, q.usr)
    /\ FieldMatches(acl.path, q.pth)

\* Read < Execute < Write
Rank(action) == CASE action = "Read" -> 1 [] action = "Execute" -> 2 [] action = "Write" -> 3

\* C3: for an Allow ACL whose subject is equal and whose user and path match,
\* check_acl_for_match returns true if and only if the ACL's action is at
\* least the query's action in Read < Execute < Write.
C3_AllowHierarchy ==
    Matched /\ acls[1].decision = "Allow" /\ SubjectUserPathMatch(acls[1], last.req) =>
        last.result = <<"Ok", Rank(acls[1].action) >= Rank(last.req.act)>>

\* An Allow-Write ACL whose user matches by a glob, asked about Execute: true
C3_Witness ==
    /\ Matched /\ acls[1].decision = "Allow" /\ SubjectUserPathMatch(acls[1], last.req)
    /\ acls[1].action = "Write" /\ last.req.act = "Execute"
    /\ acls[1].user # last.req.usr
    /\ last.result = <<"Ok", TRUE>>

\* C4: for a Deny ACL whose subject is equal and whose user and path match,
\* check_acl_for_match returns true if and only if the ACL's action is at
\* most the query's action in Read < Execute < Write.
C4_DenyHierarchy ==
    Matched /\ acls[1].decision = "Deny" /\ SubjectUserPathMatch(acls[1], last.req) =>
        last.result = <<"Ok", Rank(acls[1].action) <= Rank(last.req.act)>>

\* A Deny-Read ACL whose path matches by a glob, asked about Write: true
C4_Witness ==
    /\ Matched /\ acls[1].decision = "Deny" /\ SubjectUserPathMatch(acls[1], last.req)
    /\ acls[1].action = "Read" /\ last.req.act = "Write"
    /\ acls[1].path # last.req.pth
    /\ last.result = <<"Ok", TRUE>>

\* The positions of the table whose ACL has the decision and the action, and
\* whose subject, user and path match the query's, whatever action is asked
FieldsIdx(dec, action, q) ==
    {i \in 1..Len(acls) : /\ acls[i].decision = dec
                          /\ acls[i].action = action
                          /\ SubjectUserPathMatch(acls[i], q)}

\* C5 as stated: if an Allow-Write ACL matches (S, U, P) and no Deny ACL
\* matches, is_authz_db returns allowed = true for each action asked; if a
\* Deny-Read ACL matches (S, U, P), it returns allowed = false for each.
C5_ActionMonotonicity_AsStated ==
    Decided =>
        /\ FieldsIdx("Allow", "Write", Asked) # {} /\ MatchIdx("Deny", Asked) = {}
              => Answered(TRUE)
        /\ FieldsIdx("Deny", "Read", Asked) # {} => Answered(FALSE)

\* C5: if an Allow-Write ACL matches (S, U, P) and no Deny ACL matches,
\* is_authz_db returns allowed = true for each action asked, and if a
\* Deny-Read ACL matches (S, U, P) it returns allowed = false for each; unless
\* an ACL of the subject that is evaluated before the first matching one of
\* its pass (any Deny ACL, when none matches) has an ill-formed pattern the
\* query has to be matched against, in which case it returns a decision error.
C5_ActionMonotonicity ==
    Decided =>
        /\ FieldsIdx("Allow", "Write", Asked) # {} /\ MatchIdx("Deny", Asked) = {}
              => IF RaiseIdx("Deny", Asked) # {} \/ RaisesFirst("Allow", Asked)
                 THEN DecisionError ELSE Answered(TRUE)
        /\ FieldsIdx("Deny", "Read", Asked) # {}
              => IF RaisesFirst("Deny", Asked)
                 THEN DecisionError ELSE Answered(FALSE)

\* An Allow-Write ACL answers a Read query with allowed = true while a Deny
\* ACL of the subject, on another path, does not match
C5_Witness ==
    /\ Decided
    /\ FieldsIdx("Allow", "Write", Asked) # {}
    /\ MatchIdx("Deny", Asked) = {}
    /\ \E i \in 1..Len(acls) : acls[i].decision = "Deny" /\ acls[i].subject = Asked.sub
    /\ Asked.act = "Read"
    /\ Answered(TRUE)

\* ------------------------------------------------------------------------
\* The glob matcher (PureSpec)
\* ------------------------------------------------------------------------

\* check_acl_glob_for_match was applied to last.req
Globbed == last.op = "check_acl_glob_for_match"

EndsWith(s, suffix) ==
    Len(s) >= Len(suffix) /\ SubSeq(s, Len(s) - Len(suffix) + 1, Len(s)) = suffix

\* No character of s is special in a glob
Literal(s) == \A i \in 1..Len(s) : s[i] \notin {"*", "?", "["}

\* field is a path under the directory dir: dir, a '/', and at least one more
\* character
Under(field, dir) ==
    Len(field) > Len(dir) + 1 /\ SubSeq(field, 1, Len(dir) + 1) = dir \o <<"/">>

\* pattern is D/* and field is under D, or pattern is D/*.t and field is under
\* D and ends in .t, for a literal D
SubtreeOf(pattern, field) ==
    \/ /\ EndsWith(pattern, <<"/", "*">>)
       /\ Literal(SubSeq(pattern, 1, Len(pattern) - 2))
       /\ Under(field, SubSeq(pattern, 1, Len(pattern) - 2))
    \/ /\ EndsWith(pattern, <<"/", "*", ".", "t">>)
       /\ Literal(SubSeq(pattern, 1, Len(pattern) - 4))
       /\ Under(field, SubSeq(pattern, 1, Len(pattern) - 4))
       /\ EndsWith(field, <<".", "t">>)

\* The matcher's half of C10: a pattern D/* (or D/*.t) matches every path
\* under D, at any depth
SubtreeMatches ==
    Globbed /\ SubtreeOf(last.req.acl_field, last.req.field) =>
        last.result = <<"Ok", TRUE>>

\* The Allow ACLs that match the query with a path pattern D/* or D/*.t
SubtreeIdx(q) == {i \in MatchIdx("Allow", q) : SubtreeOf(acls[i].path, q.pth)}

FirstOf(S) == CHOOSE i \in S : \A j \in S : i <= j

\* C10 as stated: '*' matches any run of characters including '/', so a
\* pattern D/* (or D/*.t) matches every path under D at any depth; and a check
\* against such an Allow ACL with no matching Deny returns allowed = true with
\* that ACL's id.
C10_GlobSubtree_AsStated ==
    /\ SubtreeMatches
    /\ Decided /\ MatchIdx("Deny", Asked) = {} =>
          \A i \in SubtreeIdx(Asked) :
              last.status = "success" /\ last.result = AuthAnswer(TRUE, <<acls[i].id>>)

\* C10: '*' matches any run of characters including '/', so a pattern D/* (or
\* D/*.t) matches every path under D at any depth; and a check that such an
\* Allow ACL matches, with no matching Deny, returns allowed = true with the id
\* of the first matching Allow ACL of the subject, unless a Deny ACL of the
\* subject, or an Allow ACL before the first matching one, has an ill-formed
\* pattern the query has to be matched against, in which case it returns a
\* decision error.
C10_GlobSubtree ==
    /\ SubtreeMatches
    /\ Decided /\ MatchIdx("Deny", Asked) = {} /\ SubtreeIdx(Asked) # {} =>
          IF RaiseIdx("Deny", Asked) # {} \/ RaisesFirst("Allow", Asked)
          THEN DecisionError
          ELSE /\ last.status = "success"
               /\ last.result =
                     AuthAnswer(TRUE, <<acls[FirstOf(MatchIdx("Allow", Asked))].id>>)

\* An Allow ACL on /b/* answers a query on /b/x/y, two levels down, with
\* allowed = true and its id
C10_Witness ==
    /\ Decided
    /\ MatchIdx("Deny", Asked) = {}
    /\ \E i \in SubtreeIdx(Asked) :
          /\ \E k \in 1..Len(Asked.pth) : k > Len(acls[i].path) /\ Asked.pth[k] = "/"
          /\ last.status = "success"
          /\ last.result = AuthAnswer(TRUE, <<acls[i].id>>)

\* ------------------------------------------------------------------------
\* The store's paths (Spec)
\* ------------------------------------------------------------------------

\* C6: after any sequence of create, update and delete operations, with any
\* submitted paths, the path of every persisted ACL begins with '/'.
C6_StoredPathsBeginWithSlash ==
    \A i \in 1..Len(acls) : starts_with_slash(acls[i].path)

\* ------------------------------------------------------------------------
\* The endpoints and the file operations (FileSpec)
\* ------------------------------------------------------------------------

Endpoints ==
    { "ready", "create_acl", "get_all_acls", "get_acl_by_id", "delete_acl_by_id",
      "update_acl_by_id", "get_acls_for_subject", "get_acls_for_subject_user",
      "isauthz", "list_files_path", "get_file_contents_path", "post_file_contents_path" }

FileEndpoints == {"list_files_path", "get_file_contents_path", "post_file_contents_path"}

\* Reads and writes of the ACL store; listings, reads and writes of files
StoreEffects == {"db_read", "db_write"}
FileEffects == {"fs_list", "fs_read", "fs_write"}

\* The last request listed a directory, returned a file or created one
FilePerformed == last.op \in FileEndpoints /\ last.effects \cap FileEffects # {}

\* C7: on every endpoint, a request whose token is missing or fails
\* verification is answered with an error, and no ACL store read or write and
\* no file system listing, read or write is performed for it.
C7_NoEffectWithoutIdentity ==
    last.op \in Endpoints /\ get_subject_of_request(last.req.tok) = <<"Err">> =>
        /\ last.status = "error"
        /\ last.effects \cap (StoreEffects \cup FileEffects) = {}

\* The absolute path of a node, as the string the decision engine is asked
\* about
PathString(at) ==
    IF at = <<>> THEN <<"/">>
    ELSE [i \in 1..(2 * Len(at)) |-> IF i % 2 = 1 THEN "/" ELSE at[i \div 2]]

\* The action the gate asks about: Write for an upload, Read otherwise
GateAction(op) == IF op = "post_file_contents_path" THEN "Write" ELSE "Read"

\* The decision engine allows the action on the path for some user of some
\* subject
AllowedForSomeone(table, action, at) ==
    \E sub \in {"alice", "bob"}, usr \in {<<"a">>, <<"alice">>} :
        LET answer == is_authz_db(table, sub, usr, PathString(at), action)
        IN  answer.kind = "Ok" /\ answer.allowed

\* C8: a list or a download is performed only after the decision engine
\* returned allowed = true for Read on the resolved path, and an upload only
\* after it returned allowed = true for Write; otherwise nothing is listed,
\* returned or created.
C8_FileOperationsGated ==
    FilePerformed => AllowedForSomeone(acls, GateAction(last.op), last.result.target)

IsPrefix(dir, at) == Len(dir) <= Len(at) /\ SubSeq(at, 1, Len(dir)) = dir

\* C9: for every request path accepted by list, download or upload, also one
\* that begins with '/' or has ".." components, the path that is listed, read
\* or written lies under the configured root directory.
C9_RootAnchoring ==
    FilePerformed => IsPrefix(RootDir, last.result.touched)

\* ------------------------------------------------------------------------
\* Letter case (PureSpec)
\* ------------------------------------------------------------------------

\* The lower-case form of a letter
LowerCase(c) ==
    CASE c = "A" -> "a" [] c = "B" -> "b" [] c = "C" -> "c" [] c = "T" -> "t"
      [] c = "X" -> "x" [] c = "É" -> "é" [] OTHER -> c

\* The strings are equal, or differ only in letter case
SameUpToCase(s, t) ==
    Len(s) = Len(t) /\ \A i \in 1..Len(s) : LowerCase(s[i]) = LowerCase(t[i])

\* The ACL's field has no wildcard and the query's differs from it at most in
\* letter case, or they are the pattern /B/*.T and the path /b/x.t
MatchesUpToCase(acl_field, field) ==
    \/ Literal(acl_field) /\ SameUpToCase(acl_field, field)
    \/ /\ acl_field = <<"/", "B", "/", "*", ".", "T">>
       /\ field = <<"/", "b", "/", "x", ".", "t">>

\* C11: the query's user and path are matched against the ACL's without
\* regard to letter case, and the subject is compared by exact equality: an
\* ACL of the query's action matches when its user and path match the query's
\* up to letter case and its subject is the query's, and no ACL of another
\* subject matches, one that differs only in letter case neither.
C11_CaseInsensitivity ==
    Matched =>
        /\ /\ acls[1].subject = last.req.sub
           /\ acls[1].action = last.req.act
           /\ MatchesUpToCase(acls[1].user, last.req.usr)
           /\ MatchesUpToCase(acls[1].path, last.req.pth)
           => last.result = <<"Ok", TRUE>>
        /\ acls[1].subject # last.req.sub => last.result = <<"Ok", FALSE>>

\* The same for queries whose letters are all among A-Z and a-z: glob's
\* chars_eq lower-cases ASCII characters only
CaseInsensitivityOnAscii ==
    Matched /\ (\A i \in 1..Len(last.req.pth) : last.req.pth[i] # "é") =>
        /\ /\ acls[1].subject = last.req.sub
           /\ acls[1].action = last.req.act
           /\ MatchesUpToCase(acls[1].user, last.req.usr)
           /\ MatchesUpToCase(acls[1].path, last.req.pth)
           => last.result = <<"Ok", TRUE>>
        /\ acls[1].subject # last.req.sub => last.result = <<"Ok", FALSE>>

\* ------------------------------------------------------------------------
\* Round trips through the store (Spec)
\* ------------------------------------------------------------------------

\* What GET /acls/{id} returns for the id on the store as it is
GetById(id) ==
    LET result == retrieve_acl_by_id(acls, id)
    IN  IF result = <<"Err">> THEN [found |-> FALSE]
        ELSE [found |-> TRUE, acl |-> from_db_acl(result[2])]

\* The last request was a create, an update or a delete that succeeded
Created == last.op = "create_acl" /\ last.status = "success"
Updated == last.op = "update_acl_by_id" /\ last.status = "success"
Deleted == last.op = "delete_acl_by_id" /\ last.status = "success"

WithLeadingSlash(path) == IF Len(path) > 0 /\ path[1] = "/" THEN path ELSE <<"/">> \o path

\* C12: after a successful create with body {subject, user, action, path,
\* decision} by a caller with verified subject C, get_by_id of the new record
\* returns those subject, user, action and decision, the path with a '/'
\* prepended if it had none, and create_by = C.
C12_CreateRoundTrip ==
    Created =>
        LET got == GetById(next_id - 1)
        IN  /\ got.found
            /\ got.acl.subject = last.req.acl.subject
            /\ got.acl.user = last.req.acl.user
            /\ got.acl.action = last.req.acl.action
            /\ got.acl.decision = last.req.acl.decision
            /\ got.acl.path = WithLeadingSlash(last.req.acl.path)
            /\ got.acl.create_by = last.req.tok.sub[1]

\* A create by bob with a path without a leading '/': the record read back
\* has the '/' and is created by bob, who is not the body's subject
C12_Witness ==
    /\ Created
    /\ last.req.acl.path[1] # "/"
    /\ GetById(next_id - 1).found
    /\ GetById(next_id - 1).acl.path = <<"/">> \o last.req.acl.path
    /\ GetById(next_id - 1).acl.create_by = "bob"
    /\ GetById(next_id - 1).acl.subject # "bob"

\* This step is a PUT /acls/{id} that succeeds
UpdateStep == last'.op = "update_acl_by_id" /\ last'.status = "success"

\* C13: after a successful update_by_id(id, new fields) by a caller with
\* verified subject C on an existing record, get_by_id(id) returns the new
\* subject, user, action, path and decision, the same id and create_time as
\* before the update, and create_by = C; every other record of the store is
\* unchanged.
C13_UpdateRoundTrip ==
    [][ UpdateStep =>
          LET id     == last'.req.id
              new    == last'.req.acl
              before == retrieve_acl_by_id(acls, id)
              after  == retrieve_acl_by_id(acls', id)
          IN  /\ before # <<"Err">> =>
                    /\ after # <<"Err">>
                    /\ from_db_acl(after[2]) =
                          [ id          |-> id,
                            subject     |-> new.subject,
                            action      |-> new.action,
                            path        |-> new.path,
                            user        |-> new.user,
                            decision    |-> new.decision,
                            create_by   |-> last'.req.tok.sub[1],
                            create_time |-> before[2].create_time ]
              /\ Len(acls') = Len(acls)
              /\ \A i \in 1..Len(acls) : acls[i].id # id => acls'[i] = acls[i]
      ]_vars

\* An update by bob of a record that alice created, in a store of two records:
\* the record read back has the new fields and is created by bob
C13_Witness ==
    /\ Updated
    /\ Len(acls) = 2
    /\ last.req.tok.sub = <<"bob">>
    /\ GetById(last.req.id).found
    /\ GetById(last.req.id).acl.path = last.req.acl.path
    /\ GetById(last.req.id).acl.subject = last.req.acl.subject
    /\ GetById(last.req.id).acl.create_by = "bob"
    /\ \E i \in 1..2 : acls[i].id # last.req.id /\ acls[i].create_by = "alice"

\* This step is a DELETE /acls/{id} that succeeds
DeleteStep == last'.op = "delete_acl_by_id" /\ last'.status = "success"

\* The ids of the records of a table
IdsOf(table) == {table[i].id : i \in 1..Len(table)}

\* C14: after a delete_by_id of an inserted record's id, get_by_id of that id
\* yields NotFound and the record takes part in no listing and in no
\* authorization check; delete_by_id(id) removes no record with a different
\* id; and a record leaves the store only through a delete of its id.
C14_DeleteRoundTrip ==
    [][ /\ DeleteStep =>
              LET id == last'.req.id
              IN  /\ retrieve_acl_by_id(acls', id) = <<"Err">>
                  /\ id \notin IdsOf(retrieve_all_acls(acls'))
                  /\ \A sub \in Subjects :
                        /\ id \notin IdsOf(retrieve_acls_for_subject(acls', sub))
                        /\ \A dec \in AclDecision : id \notin IdsOf(LoadAcls(acls', sub, dec))
                  /\ acls' = SelectSeq(acls, LAMBDA a : a.id # id)
        /\ \A id \in IdsOf(acls) \ IdsOf(acls') : DeleteStep /\ last'.req.id = id
      ]_vars

\* A record was inserted and deleted, get_by_id of its id finds nothing, and
\* the other record of the store is still there
C14_Witness ==
    /\ Deleted
    /\ last.req.id < next_id
    /\ ~GetById(last.req.id).found
    /\ Len(acls) = 1
    /\ next_id = 3

\* The last check reached is_authz_db, which returned an AuthCheckError
FailedCheck ==
    /\ Decided
    /\ is_authz_db(acls, Asked.sub, Asked.usr, Asked.pth, Asked.act) = AuthCheckError

\* C17: when is_authz_db returns an AuthCheckError, the isauthz request
\* completes with the error envelope (HTTP 400, status "error", the failure
\* text in message): the conversion AuthCheckError -> TagentError -> response
\* terminates.
C17_FailedCheckSurfaced ==
    FailedCheck => last.status = "error" /\ last.result = "authcheck"

\* This step is a POST /acls or a PUT /acls/{id} whose body was read
WriteStep ==
    last'.op \in {"create_acl", "update_acl_by_id"} /\ "acl" \in DOMAIN last'.req

\* The action or the decision of the body is outside its enumeration
OutsideEnumerations(body) ==
    body.action \notin {"Read", "Execute", "Write"} \/ body.decision \notin {"Allow", "Deny"}

\* C18: after any sequence of create, update and delete requests with
\* arbitrary strings in their bodies, every persisted record has its action in
\* {Read, Execute, Write} and its decision in {Allow, Deny}; and a create or
\* update whose action or decision is another value is rejected and leaves the
\* store unchanged.
C18_StoreEnumerations ==
    /\ [](\A i \in 1..Len(acls) :
             /\ acls[i].action \in {"Read", "Execute", "Write"}
             /\ acls[i].decision \in {"Allow", "Deny"})
    /\ [][WriteStep /\ OutsideEnumerations(last'.req.acl) =>
             last'.status = "error" /\ acls' = acls /\ next_id' = next_id]_vars

\* An update of a stored record with an action outside the enumeration, by a
\* caller with a valid token, was rejected
C18_Witness ==
    /\ last.op = "update_acl_by_id"
    /\ get_subject_of_request(last.req.tok) # <<"Err">>
    /\ OutsideEnumerations(last.req.acl)
    /\ retrieve_acl_by_id(acls, last.req.id) # <<"Err">>
    /\ last.status = "error"

\* The node a request path names, resolved from the root directory as the
\* endpoint op resolves it: <<"Ok", absolute path>> or <<"Err">> if there is none
Resolved(files, op, path) ==
    Walk(files,
         IF op = "list_files_path" /\ path = ReqPath(TRUE, <<>>) THEN RootDir
         ELSE push(RootDir, path),
         1, <<>>)

Missing(files, op, path) == Resolved(files, op, path) = <<"Err">>

Directory(files, op, path) ==
    /\ ~Missing(files, op, path)
    /\ files[Resolved(files, op, path)[2]].kind = "dir"

\* This step is a request of the file endpoint op that got as far as its path
FileStep(op) == last'.op = op /\ "path" \in DOMAIN last'.req

\* C19: list and download of a path that does not exist, resolved from the
\* root, return an error envelope, with no listing and no content; download
\* of a directory returns an error; upload into a path that does not exist or
\* is not a directory returns an error and creates no file.
C19_FileGatePathChecks ==
    [][ /\ FileStep("list_files_path") /\ Missing(fs, "list_files_path", last'.req.path)
           => last'.status = "error" /\ "fs_list" \notin last'.effects
        /\ /\ FileStep("get_file_contents_path")
           /\ \/ Missing(fs, "get_file_contents_path", last'.req.path)
              \/ Directory(fs, "get_file_contents_path", last'.req.path)
           => last'.status = "error" /\ "fs_read" \notin last'.effects
        /\ /\ FileStep("post_file_contents_path")
           /\ ~Directory(fs, "post_file_contents_path", last'.req.path)
           => last'.status = "error" /\ "fs_write" \notin last'.effects /\ fs' = fs
      ]_vars

\* An upload with a part into the path of a file of the root directory was
\* answered with an error, and the file is as it was
C19_Witness ==
    /\ last.op = "post_file_contents_path"
    /\ last.req.path = ReqPath(FALSE, <<"p", "f">>)
    /\ last.req.payload # <<>>
    /\ last.status = "error"
    /\ fs[<<"r", "p", "f">>] = FileNode("old")

\* The string is an ill-formed glob
IllFormed(pattern) == PatternNew(pattern).err

\* The match predicate is evaluated on row i of the table in the decision on
\* the query: the row is an ACL of the subject, no ACL of the subject before
\* it in its class matches or raises, and none of the Deny ACLs does if it is
\* an Allow ACL
Evaluated(i, q) ==
    /\ acls[i].subject = q.sub
    /\ \A j \in MatchIdx(acls[i].decision, q) \cup RaiseIdx(acls[i].decision, q) : i <= j
    /\ acls[i].decision = "Allow" => MatchIdx("Deny", q) \cup RaiseIdx("Deny", q) = {}

\* The user of the query passes the user field of the ACL
UserPasses(acl, q) ==
    \/ q.usr = acl.user
    \/ ~IllFormed(acl.user) /\ matches_from(PatternNew(acl.user).tokens, TRUE, q.usr, 1, MatchOptions)

\* The match predicate has to match the query against an ill-formed glob of
\* the ACL: its user field, when the user asked differs from it, or its path
\* field, when the user passes and the path asked differs from it
MatchedAgainstIllFormed(acl, q) ==
    \/ q.usr # acl.user /\ IllFormed(acl.user)
    \/ UserPasses(acl, q) /\ q.pth # acl.path /\ IllFormed(acl.path)

\* C16 as stated: if an ACL of the subject asked about that the evaluation
\* reaches has an ill-formed glob in its user or path field, the decision
\* returns a decision error instead of an answer, also when the query string
\* equals the ill-formed pattern and when the ACL's user does not match.
C16_IllFormedPatterns_AsStated ==
    Decided =>
        \A i \in 1..Len(acls) :
            Evaluated(i, Asked) /\ (IllFormed(acls[i].user) \/ IllFormed(acls[i].path))
                => DecisionError

\* C16: the decision returns a decision error instead of an answer exactly
\* when the evaluation reaches an ACL of the subject asked about and has to
\* match the query against an ill-formed glob of it: the user field if the
\* user asked is not equal to it, the path field if the user passes and the
\* path asked is not equal to it.  A field equal to the query string passes
\* without being read as a glob, the path is not looked at when the user does
\* not pass, and an ACL after the first matching one is not reached.
C16_IllFormedPatterns ==
    Decided =>
        (DecisionError <=>
            \E i \in 1..Len(acls) :
                Evaluated(i, Asked) /\ MatchedAgainstIllFormed(acls[i], Asked))

\* A Deny ACL whose path "/[" is ill formed was evaluated and the decision
\* failed: the path asked is another one and the user asked is the ACL's
C16_Witness ==
    /\ Decided
    /\ DecisionError
    /\ \E i \in 1..Len(acls) :
          /\ Evaluated(i, Asked)
          /\ acls[i].decision = "Deny"
          /\ IllFormed(acls[i].path)
          /\ Asked.usr = acls[i].user
          /\ Asked.pth # acls[i].path

\* ------------------------------------------------------------------------
\* The decision next to other requests (CheckSpec)
\* ------------------------------------------------------------------------

\* A call of is_authz_db is in progress or about to return
Checking == task.pc # "idle"

\* The event is a store query that failed or a match predicate that raised
Failure(e) ==
    \/ e.ev = "query" /\ ~e.ok
    \/ e.ev = "eval" /\ e.out = <<"Err">>

\* C15: whenever one of the two store queries of is_authz_db fails or an
\* evaluation of the match predicate raises a pattern error, is_authz_db does
\* nothing more and returns an AuthCheckError, never an answer made of what
\* it had evaluated until then.
C15_NoDefaultAllowOnError ==
    Checking =>
        \A k \in 1..Len(task.log) :
            Failure(task.log[k]) =>
                /\ k = Len(task.log)
                /\ task.pc = "return"
                /\ task.result = AuthCheckError

\* The query for the Allow ACLs failed after a Deny ACL of the subject had
\* been evaluated and had not matched, and is_authz_db returns the error
C15_Witness ==
    /\ Checking
    /\ task.pc = "return"
    /\ task.result = AuthCheckError
    /\ Len(task.log) >= 3
    /\ task.log[Len(task.log)] = QueryEvent("Allow", FALSE)
    /\ task.log[2].ev = "eval" /\ task.log[2].out = <<"Ok", FALSE>>

\* C20: within one evaluation of is_authz_db, the query for the Deny ACLs and
\* the evaluation of every Deny ACL it returned come before the query for the
\* Allow ACLs, which is issued only if none of them matched; Allow ACLs are
\* evaluated after it only; whatever requests on the ACLs are handled between
\* the statements of the evaluation.
C20_PassOrdering ==
    Checking =>
        /\ \A j, k \in 1..Len(task.log) :
              task.log[j].dec = "Deny" /\ task.log[k].dec = "Allow" => j < k
        /\ \A k \in 1..Len(task.log) :
              task.log[k].ev = "query" /\ task.log[k].dec = "Allow" =>
                  /\ k > 1
                  /\ task.log[1] = QueryEvent("Deny", TRUE)
                  /\ \A j \in 2..(k - 1) :
                        /\ task.log[j].ev = "eval"
                        /\ task.log[j].dec = "Deny"
                        /\ task.log[j].out = <<"Ok", FALSE>>
                  /\ {task.log[j].id : j \in 2..(k - 1)} = IdsOf(task.deny)
                  /\ \A j \in (k + 1)..Len(task.log) : task.log[j].ev = "eval"

\* An evaluation queried the Deny ACLs, evaluated the one it got, which did not
\* match, then queried the Allow ACLs and found a match, while the Deny ACL it
\* had got was deleted from the store
C20_Witness ==
    /\ Checking
    /\ task.pc = "return"
    /\ task.result.kind = "Ok" /\ task.result.allowed
    /\ Len(task.deny) = 1
    /\ task.deny[1].id \notin IdsOf(acls)
    /\ \E k \in 3..Len(task.log) : task.log[k] = QueryEvent("Allow", TRUE)

\* ------------------------------------------------------------------------
\* The decision and the store it reads (RaceSpec)
\* ------------------------------------------------------------------------

\* The ACLs of a table with the subject and the decision, in table order
OfClass(table, sub, dec) ==
    SelectSeq(table, LAMBDA a : a.subject = sub /\ a.decision = dec)

\* C21: the two queries of one check are separate reads of the store, each of
\* the store as it is when the query runs: the Deny pass evaluates the Deny
\* ACLs the store held at the first query and the Allow pass the Allow ACLs
\* it held at the second, so that a record inserted or updated between them
\* is seen by the Allow pass and not by the Deny pass.
C21_NonSnapshotReads ==
    Checking /\ Len(task.log) >= 1 /\ task.log[1].ok =>
        /\ task.deny = OfClass(hist.at[1], task.req.sub, "Deny")
        /\ task.pc = "for" /\ task.pass = 2 =>
              task.rows = OfClass(hist.at[2], task.req.sub, "Allow")

\* The Allow pass evaluates a record that was not in the store at the Deny
\* query: a request between the two queries put it there
C21_Witness ==
    /\ Checking
    /\ task.pc = "for" /\ task.pass = 2
    /\ \E i \in 1..Len(task.rows) : task.rows[i] \notin {hist.at[1][j] : j \in 1..Len(hist.at[1])}
    /\ hist.at[1] # hist.at[2]

\* ------------------------------------------------------------------------
\* The decision and the order of the store (PureSpec)
\* ------------------------------------------------------------------------

\* The tables that hold the records of the store in another order
Reordered ==
    LET n == Len(acls)
    IN  {[i \in 1..n |-> acls[p[i]]] :
            p \in {f \in [1..n -> 1..n] : \A i, j \in 1..n : f[i] = f[j] => i = j}}

\* What is_authz_db returns for the query asked on a table
DecisionOn(table) == is_authz_db(table, Asked.sub, Asked.usr, Asked.pth, Asked.act)

\* C22 as stated: for a fixed set of records and a fixed query, the outcome of
\* is_authz_db, an error or the value of allowed, is the same for every order
\* in which the store returns the records.
C22_OrderIndependence_AsStated ==
    Decided =>
        \A t \in Reordered :
            /\ DecisionOn(t).kind = last.result.kind
            /\ DecisionOn(t).kind = "Ok" => DecisionOn(t).allowed = last.result.allowed

\* C22: for a fixed set of records and a fixed query, two orders of the store
\* for which is_authz_db returns answers return the same value of allowed,
\* and every order returns an answer when no ACL of the subject has an
\* ill-formed pattern the query has to be matched against; with such an ACL,
\* whether the outcome is an answer or a decision error depends on the order.
C22_OrderIndependence ==
    Decided =>
        \A t \in Reordered :
            /\ DecisionOn(t).kind = "Ok" /\ last.result.kind = "Ok"
                  => DecisionOn(t).allowed = last.result.allowed
            /\ RaiseIdx("Deny", Asked) \cup RaiseIdx("Allow", Asked) = {}
                  => DecisionOn(t).kind = "Ok" /\ last.result.kind = "Ok"

\* Two Allow ACLs match: the answer is allowed = true by the first one, and in
\* the other order it is allowed = true by the other one
C22_Witness ==
    /\ Decided
    /\ Len(acls) = 2
    /\ MatchIdx("Allow", Asked) = {1, 2}
    /\ last.result = AuthAnswer(TRUE, <<acls[1].id>>)
    /\ DecisionOn(<<acls[2], acls[1]>>) = AuthAnswer(TRUE, <<acls[2].id>>)

\* C23: when is_authz_db returns allowed = true, acl_id is the id of the first
\* Allow ACL, in store order, of the subject asked about that matches the
\* query; when it returns allowed = false with an acl_id, that is the id of
\* the first Deny ACL of the subject that matches; and the acl_id of an answer
\* is absent exactly when no ACL matched.
C23_ReportedAclId ==
    Decided /\ last.status = "success" =>
        /\ last.result.allowed =>
              /\ MatchIdx("Allow", Asked) # {}
              /\ last.result.acl_id = <<acls[FirstOf(MatchIdx("Allow", Asked))].id>>
        /\ ~last.result.allowed /\ last.result.acl_id # <<>> =>
              /\ MatchIdx("Deny", Asked) # {}
              /\ last.result.acl_id = <<acls[FirstOf(MatchIdx("Deny", Asked))].id>>
        /\ last.result.acl_id = <<>> <=>
              MatchIdx("Deny", Asked) \cup MatchIdx("Allow", Asked) = {}

\* The second of two Allow ACLs is the first that matches, and the answer is
\* allowed = true with its id
C23_Witness ==
    /\ Decided
    /\ Len(acls) = 2
    /\ acls[1].decision = "Allow" /\ acls[1].subject = Asked.sub
    /\ MatchIdx("Allow", Asked) = {2}
    /\ last.status = "success"
    /\ last.result = AuthAnswer(TRUE, <<2>>)

\* ------------------------------------------------------------------------
\* Requests on an ACL id (Spec)
\* ------------------------------------------------------------------------

\* This step is a GET, PUT or DELETE /acls/{id} of a caller with a valid
\* token and a well-formed body
ByIdStep ==
    /\ last'.op \in {"get_acl_by_id", "update_acl_by_id", "delete_acl_by_id"}
    /\ "id" \in DOMAIN last'.req
    /\ get_subject_of_request(last'.req.tok) # <<"Err">>
    /\ last'.op = "update_acl_by_id" => ~OutsideEnumerations(last'.req.acl)

\* C24: get_by_id, update_by_id and delete_by_id addressed to an id that is
\* not in the store answer with an error envelope (status "error") instead of
\* a success acknowledgment, and leave the store unchanged.
C24_AbsentAclId ==
    [][ByIdStep /\ last'.req.id \notin IdsOf(acls) =>
            last'.status = "error" /\ acls' = acls]_vars

\* The multipart stream of the payload fails while a part is read
StreamFails(payload) == \E i \in 1..Len(payload) : payload[i] = ReadError

\* C25: an upload into a directory whose multipart stream fails while a next
\* part is read, or that carries no part at all, does not return a success
\* acknowledgment.
C25_NoSilentRecoveryInUpload ==
    [][ /\ FileStep("post_file_contents_path")
        /\ Directory(fs, "post_file_contents_path", last'.req.path)
        /\ last'.req.payload = <<>> \/ StreamFails(last'.req.payload)
        => last'.status # "success" ]_vars

\* Upload k has completed: its handler answered with a success
Completed(k) == uploads[k].pc = "done" /\ ~uploads[k].err

\* The content upload k sent for its file
Sent(k) == uploads[k].req.payload[1].data

\* C26: when two uploads of the same filename into the same directory have
\* both completed, the content of the file is the complete content of
\* exactly one of them, never a mixture of chunks, under every interleaving
\* of their create and chunk-write steps.
C26_ConcurrentUploadsLastWriterWins ==
    \A j \in DOMAIN uploads : \A k \in DOMAIN uploads :
        j < k /\ Completed(j) /\ Completed(k) /\ uploads[j].filepath = uploads[k].filepath
            => fs[uploads[k].filepath].content \in {Sent(j), Sent(k)}

\* The ACLs of the table whose subject is exactly sub, in table order
OfSubject(table, sub) == SelectSeq(table, LAMBDA a : a.subject = sub)

\* C27: the result of the decision for a subject is the result on the store
\* reduced to the records whose subject is exactly that subject, so it is
\* identical in any two stores that hold the same such records; records of
\* other subjects, ill-formed, differing in case only or glob-like, never
\* change it.
C27_SubjectIsolation ==
    Decided => last.result = DecisionOn(OfSubject(acls, Asked.sub))

\* The last check was allowed although the table holds a Deny ACL of another
\* subject whose user and path match the query
C27_Witness ==
    /\ Decided /\ Answered(TRUE)
    /\ \E i \in 1..Len(acls) :
          /\ acls[i].subject # Asked.sub /\ acls[i].decision = "Deny"
          /\ FieldMatches(acls[i].user, Asked.usr) /\ FieldMatches(acls[i].path, Asked.pth)
          /\ Rank(acls[i].action) <= Rank(Asked.act)

\* The last check was answered although the table holds an ACL of another
\* subject with an ill-formed path
C27_WitnessIllFormed ==
    /\ Decided /\ last.status = "success"
    /\ \E i \in 1..Len(acls) : acls[i].subject # Asked.sub /\ IllFormed(acls[i].path)

\* No ACL of the table has an ill-formed glob in its user or its path
WellFormed(table) ==
    \A i \in 1..Len(table) : ~IllFormed(table[i].user) /\ ~IllFormed(table[i].path)

\* The decision on the table for the last check's subject, user and path and
\* the action
DecisionFor(table, action) == is_authz_db(table, Asked.sub, Asked.usr, Asked.pth, action)

\* C28: on a store free of ill-formed patterns, a check that is allowed for an
\* action is allowed, on the same store for the same subject, user and path,
\* for every action lower than or equal to it in Read < Execute < Write.
C28_DownwardClosure ==
    Decided /\ WellFormed(acls) /\ Answered(TRUE) =>
        \A lower \in AclAction :
            Rank(lower) <= Rank(Asked.act) =>
                DecisionFor(acls, lower).kind = "Ok" /\ DecisionFor(acls, lower).allowed

\* A check for Write was allowed on a table free of ill-formed patterns that
\* also holds a Deny ACL of the subject
C28_Witness ==
    /\ Decided /\ WellFormed(acls) /\ Answered(TRUE)
    /\ Asked.act = "Write"
    /\ \E i \in 1..Len(acls) : acls[i].subject = Asked.sub /\ acls[i].decision = "Deny"

\* ------------------------------------------------------------------------
\* The decision next to requests that change the store (RaceSpec)
\* ------------------------------------------------------------------------

\* The query of the check in progress, as is_authz_db got it
Query ==
    [sub |-> task.req.sub, usr |-> task.req.usr, act |-> task.req.act,
     pth |-> check_path(task.req.pth)]

\* The records of a store
Records(table) == {table[i] : i \in 1..Len(table)}

\* A Deny ACL that matches the query of the check in progress was in the
\* store when the check started and no request has deleted or updated it
\* since
StandingDeny ==
    \E d \in Records(acls) :
        /\ d.decision = "Deny"
        /\ SubjectUserPathMatch(d, Query) /\ Rank(d.action) <= Rank(Query.act)
        /\ \A s \in hist.stores : d \in Records(s)

\* The check in progress has come to its end: what it returns
Returning == task.pc = "return"

\* C29: if a Deny ACL that matches the query is in the store before a check
\* starts and is neither deleted nor updated until the check ends, the check
\* does not return allowed=true, whatever requests change the rest of the
\* store meanwhile.
C29_StandingDenyUnderConcurrency ==
    Returning /\ StandingDeny => ~(task.result.kind = "Ok" /\ task.result.allowed)

\* A check returns allowed=false by a Deny ACL that stood from its start to
\* its end, while another request put a matching Allow ACL into the store
C29_Witness ==
    /\ Returning /\ StandingDeny
    /\ task.result.kind = "Ok" /\ ~task.result.allowed
    /\ hist.n > 0
    /\ \E a \in Records(acls) :
          /\ a.decision = "Allow" /\ SubjectUserPathMatch(a, Query)
          /\ \E s \in hist.stores : a \notin Records(s)

\* The answer of the sequential decision algorithm on a store
Sequential(table) == is_authz_db(table, Query.sub, Query.usr, Query.pth, Query.act)

\* The check in progress returns an answer, not an error
Answering == Returning /\ task.result.kind = "Ok"

\* C30 as stated: every answer of a check that runs next to creates, updates
\* and deletes of ACLs is the answer of the sequential decision algorithm on
\* the contents of the store at some single instant between the start and
\* the end of the check.
C30_Linearizability_AsStated ==
    Answering => \E s \in hist.stores : Sequential(s) = task.result

\* The Deny ACLs of the store at the first query of the check in progress,
\* followed by the Allow ACLs of the store at its second query, if it came
\* that far
ReadByQueries ==
    OfClass(hist.at[1], Query.sub, "Deny") \o
        (IF Len(hist.at) >= 2 THEN OfClass(hist.at[2], Query.sub, "Allow") ELSE <<>>)

\* C30: every answer of a check is the answer of the sequential decision
\* algorithm on the Deny ACLs the store held at the instant of the Deny query
\* together with the Allow ACLs it held at the later instant of the Allow
\* query; the two instants need not be one.
C30_Linearizability ==
    Answering => task.result = Sequential(ReadByQueries)

\* A check returns allowed=true although the store at no instant between its
\* start and its end held a matching Allow ACL and no matching Deny ACL
C30_Witness ==
    /\ Answering /\ task.result.allowed
    /\ \A s \in hist.stores : ~(Sequential(s).kind = "Ok" /\ Sequential(s).allowed)
    /\ task.result = Sequential(ReadByQueries)

====
